---- MODULE Spec2Model ----
(***************************************************************************)
(* A model of the snmp2 client core: the backward BER encode buffer        *)
(* (pdu.rs, Buf), the v1/v2c message builder (pdu.rs, build), the decoder   *)
(* and validator (pdu.rs, Pdu) and the synchronous session                  *)
(* (syncsession.rs, SyncSession) talking to an agent over a UDP socket.     *)
(*                                                                         *)
(* Bytes are naturals 0..255.  An i64 is kept as its 8 big-endian           *)
(* two's-complement bytes, a u32 as 4 big-endian bytes, so that no value    *)
(* of the program is cut to the model checker's integers.  An i32 (the      *)
(* request id) is an integer in I32_MIN..I32_MAX.                           *)
(***************************************************************************)
EXTENDS Integers, Sequences, FiniteSets, TLC

---------------------------------------------------------------------------
(* Program constants *)

\* The capacity of Buf and of recv_buf (lib.rs): a power of two of at least
\* 1500.
BUFFER_SIZE == 4096

I32_MAX == 2147483647
I32_MIN == (-I32_MAX) - 1

I64_SIZE == 8

TYPE_BOOLEAN == 1
TYPE_INTEGER == 2
TYPE_OCTETSTRING == 4
TYPE_NULL == 5
TYPE_OBJECTIDENTIFIER == 6
TYPE_SEQUENCE == 48

TYPE_IPADDRESS == 64
TYPE_COUNTER32 == 65
TYPE_UNSIGNED32 == 66
TYPE_TIMETICKS == 67
TYPE_OPAQUE == 68
TYPE_COUNTER64 == 70
SNMP_NOSUCHOBJECT == 128
SNMP_NOSUCHINSTANCE == 129
SNMP_ENDOFMIBVIEW == 130

MSG_GET == 160
MSG_GET_NEXT == 161
MSG_RESPONSE == 162
MSG_SET == 163
MSG_TRAP_V1 == 164
MSG_GET_BULK == 165
MSG_INFORM == 166
MSG_TRAP_V2 == 167
MSG_REPORT == 168

VERSION_V1 == 0
VERSION_V2C == 1
VERSION_V3 == 3

---------------------------------------------------------------------------
(* Bytes and fixed-width integers *)

Repeat(b, n) == [i \in 1..n |-> b]

Pow256(k) == CASE k = 0 -> 1 [] k = 1 -> 256 [] k = 2 -> 65536 [] OTHER -> 16777216

\* u32::to_be_bytes of a natural below 2^31.
U32Bytes(n) ==
  << n \div 16777216, (n \div 65536) % 256, (n \div 256) % 256, n % 256 >>

\* The low 4 bytes of a negative i32, given the bytes of its low 31 bits.
NegHigh(b) == << b[1] + 128, b[2], b[3], b[4] >>

\* i64::from(i32): sign extension to 8 big-endian bytes.
I64FromI32(x) ==
  IF x >= 0
    THEN Repeat(0, 4) \o U32Bytes(x)
    ELSE Repeat(255, 4) \o NegHigh(U32Bytes((x + I32_MAX) + 1))

\* i64::from(u32), the u32 given as its 4 big-endian bytes.
I64FromU32(u) == Repeat(0, 4) \o u

\* i64::is_negative on the 8 bytes.
IsNegative(n) == n[1] >= 128

RECURSIVE LeadingBytes(_, _, _)
\* The number of leading bytes of n equal to b, from position i on.
LeadingBytes(n, b, i) ==
  IF i > Len(n) \/ n[i] # b THEN 0 ELSE 1 + LeadingBytes(n, b, i + 1)

\* usize::leading_zeros / 8 subtracted from size_of::<usize>: the number of
\* significant bytes of a length (lengths of the model are below 2^31).
SignificantBytes(len) ==
  IF len < 256 THEN 1 ELSE IF len < 65536 THEN 2 ELSE IF len < 16777216 THEN 3 ELSE 4

\* The last k bytes of usize::to_be_bytes(len), for k = SignificantBytes(len).
LenBytes(len) ==
  LET k == SignificantBytes(len)
  IN  [i \in 1..k |-> (len \div Pow256(k - i)) % 256]

---------------------------------------------------------------------------
(* pdu.rs: Buf, the backward-growing encode buffer.                        *)
(* data is the valid tail buf[BUFFER_SIZE - len ..] (the Deref view); the   *)
(* stale head of the array is never read.  panic records that an           *)
(* operation panicked (an out-of-range slice index or an arithmetic         *)
(* overflow): the call that owns the buffer unwinds.                        *)

BufDefault == [len |-> 0, data |-> << >>, panic |-> FALSE]

available(b) == BUFFER_SIZE - b.len

Panicked(b) == [b EXCEPT !.panic = TRUE]

push_chunk(b, chunk) ==
  IF b.panic THEN b
  ELSE IF Len(chunk) > available(b) THEN Panicked(b)
  ELSE [b EXCEPT !.len = @ + Len(chunk), !.data = chunk \o @]

push_byte(b, byte) ==
  IF b.panic THEN b
  ELSE IF available(b) < 1 THEN Panicked(b)
  ELSE [b EXCEPT !.len = @ + 1, !.data = << byte >> \o @]

reset(b) == [b EXCEPT !.len = 0, !.data = << >>]

push_length(b, len) ==
  IF b.panic THEN b
  ELSE IF len < 128 THEN push_byte(b, len)
  ELSE LET length_len   == SignificantBytes(len)
           leading_byte == length_len + 128
       IN  IF available(b) <= length_len
             THEN b                                   \* scribbled 0 bytes
             ELSE [b EXCEPT !.len = @ + length_len + 1,
                            !.data = << leading_byte >> \o LenBytes(len) \o @]

\* The byte that fills the high end of n: 0xff when n is negative, else 0.
i64_null(n) == IF IsNegative(n) THEN 255 ELSE 0

\* The count with no byte added to preserve the sign.
i64_count_unsigned(n, null, count) == count

\* count = size_of::<i64>() - num_null_bytes, 1 when that is 0, and one more
\* to preserve the sign: (wbuf[size - count] ^ null) > 127.
i64_count_signed(n, null, count) ==
  IF (null = 0 /\ n[I64_SIZE - count + 1] > 127) \/ (null = 255 /\ n[I64_SIZE - count + 1] < 128)
    THEN count + 1 ELSE count

i64_count_of(n, null, num_null_bytes) ==
  i64_count_signed(n, null,
                   IF I64_SIZE - num_null_bytes = 0 THEN 1 ELSE I64_SIZE - num_null_bytes)

i64_count(n) == i64_count_of(n, i64_null(n), LeadingBytes(n, i64_null(n), 1))

\* push_i64 returns the buffer and the number of bytes written.
\* overflow_checks: the build panics on `wbuf.len() - size_of::<i64>()`
\* when fewer than 8 bytes are free; without the checks the subtraction
\* wraps and the later offset brings the pointer back into the buffer.
push_i64_count(b, n, count, overflow_checks) ==
  IF overflow_checks /\ available(b) < I64_SIZE
    THEN [buf |-> Panicked(b), count |-> 0]
  ELSE IF available(b) < count
    THEN [buf |-> b, count |-> 0]
  ELSE [buf |-> [b EXCEPT !.len = @ + count,
                          !.data = SubSeq(n, I64_SIZE - count + 1, I64_SIZE) \o @],
        count |-> count]

push_i64(b, n, overflow_checks) ==
  IF b.panic THEN [buf |-> b, count |-> 0]
  ELSE push_i64_count(b, n, i64_count(n), overflow_checks)

\* The shared tail of push_integer, push_counter32, push_unsigned32,
\* push_timeticks and push_counter64: push_length and push_byte after
\* push_i64 returned r.
push_tlv_head(r, ident) == push_byte(push_length(r.buf, r.count), ident)

push_i64_tlv(b, n, ident, overflow_checks) ==
  push_tlv_head(push_i64(b, n, overflow_checks), ident)

push_integer(b, n, overflow_checks) == push_i64_tlv(b, n, TYPE_INTEGER, overflow_checks)

push_counter32(b, u, overflow_checks) ==
  push_i64_tlv(b, I64FromU32(u), TYPE_COUNTER32, overflow_checks)

push_unsigned32(b, u, overflow_checks) ==
  push_i64_tlv(b, I64FromU32(u), TYPE_UNSIGNED32, overflow_checks)

push_timeticks(b, u, overflow_checks) ==
  push_i64_tlv(b, I64FromU32(u), TYPE_TIMETICKS, overflow_checks)

\* n as i64 keeps the 8 bytes.
push_counter64(b, n, overflow_checks) ==
  push_i64_tlv(b, n, TYPE_COUNTER64, overflow_checks)

push_endofmibview(b) == push_chunk(b, << SNMP_ENDOFMIBVIEW, 0 >>)

push_nosuchobject(b) == push_chunk(b, << SNMP_NOSUCHOBJECT, 0 >>)

push_nosuchinstance(b) == push_chunk(b, << SNMP_NOSUCHINSTANCE, 0 >>)

push_null(b) == push_chunk(b, << TYPE_NULL, 0 >>)

push_opaque(b, bytes) ==
  push_byte(push_length(push_chunk(b, bytes), Len(bytes)), TYPE_OPAQUE)

push_boolean(b, boolean) ==
  push_byte(push_length(push_byte(b, IF boolean THEN 1 ELSE 0), 1), TYPE_BOOLEAN)

push_ipaddress(b, ip) ==
  push_byte(push_length(push_chunk(b, ip), Len(ip)), TYPE_IPADDRESS)

push_object_identifier_raw(b, input) ==
  push_byte(push_length(push_chunk(b, input), Len(input)), TYPE_OBJECTIDENTIFIER)

push_octet_string(b, bytes) ==
  push_byte(push_length(push_chunk(b, bytes), Len(bytes)), TYPE_OCTETSTRING)

\* push_constructed: before_len is self.len before f ran, b the buffer after.
push_constructed(before_len, b, ident) ==
  IF b.panic THEN b
  ELSE push_byte(push_length(b, b.len - before_len), ident)

push_sequence(before_len, b) == push_constructed(before_len, b, TYPE_SEQUENCE)

---------------------------------------------------------------------------
(* pdu.rs: build, build_inner and the four request builders.               *)
(* A Value is [kind, v]: v is the payload bytes (OctetString, Opaque,       *)
(* ObjectIdentifier, IpAddress), the 8 bytes of an i64/u64 (Integer,        *)
(* Counter64), the 4 bytes of a u32 (Counter32, Unsigned32, Timeticks), a   *)
(* BOOLEAN (Boolean) or << >>.  An Oid is its BER content bytes             *)
(* (Oid::as_bytes).  values is a sequence of [oid, val].                    *)

Value(kind, v) == [kind |-> kind, v |-> v]
ValueNull == Value("Null", << >>)

\* The match of build_inner's closure; kinds it does not encode return early.
Encodable(val) ==
  val.kind \in {"Boolean", "Null", "Integer", "OctetString", "ObjectIdentifier",
                "IpAddress", "Counter32", "Unsigned32", "Timeticks", "Opaque",
                "Counter64", "EndOfMibView", "NoSuchObject", "NoSuchInstance"}

push_value(b, val, overflow_checks) ==
  CASE val.kind = "Boolean"          -> push_boolean(b, val.v)
    [] val.kind = "Null"             -> push_null(b)
    [] val.kind = "Integer"          -> push_integer(b, val.v, overflow_checks)
    [] val.kind = "OctetString"      -> push_octet_string(b, val.v)
    [] val.kind = "ObjectIdentifier" -> push_object_identifier_raw(b, val.v)
    [] val.kind = "IpAddress"        -> push_ipaddress(b, val.v)
    [] val.kind = "Counter32"        -> push_counter32(b, val.v, overflow_checks)
    [] val.kind = "Unsigned32"       -> push_unsigned32(b, val.v, overflow_checks)
    [] val.kind = "Timeticks"        -> push_timeticks(b, val.v, overflow_checks)
    [] val.kind = "Opaque"           -> push_opaque(b, val.v)
    [] val.kind = "Counter64"        -> push_counter64(b, val.v, overflow_checks)
    [] val.kind = "EndOfMibView"     -> push_endofmibview(b)
    [] val.kind = "NoSuchObject"     -> push_nosuchobject(b)
    [] val.kind = "NoSuchInstance"   -> push_nosuchinstance(b)
    [] OTHER                         -> b

\* One varbind: SEQUENCE { oid, value }, the value pushed first.
push_varbind(b, vb, overflow_checks) ==
  push_sequence(b.len,
                IF Encodable(vb.val)
                  THEN push_object_identifier_raw(
                         push_value(b, vb.val, overflow_checks), vb.oid)
                  ELSE b)

RECURSIVE push_varbinds(_, _, _, _)
\* for &(oid, ref val) in values.iter().rev(): values[i], values[i-1], ..
\* Each turn of the loop has returned before the next begins: pushed is the
\* buffer it left.
push_varbinds(b, values, i, overflow_checks) ==
  IF i = 0 THEN b
  ELSE CHOOSE after \in
         {push_varbinds(pushed, values, i - 1, overflow_checks)
            : pushed \in {push_varbind(b, values[i], overflow_checks)}} : TRUE

\* build_inner with non_repeaters written last and max_repetitions before it.
build_inner_integers_reversed(b, req_id, ident, values, non_repeaters, max_repetitions, overflow_checks) ==
  CHOOSE after \in
    {push_constructed(b.len,
       push_integer(
         push_integer(
           push_integer(varbinds, I64FromU32(max_repetitions), overflow_checks),
           I64FromU32(non_repeaters), overflow_checks),
         I64FromI32(req_id), overflow_checks),
       ident)
       : varbinds \in
           {push_sequence(b.len, pushed)
              : pushed \in {push_varbinds(b, values, Len(values), overflow_checks)}}} : TRUE

\* non_repeaters and max_repetitions are u32 (4 bytes), req_id an i32.
\* The closures have returned before the writer that called them goes on:
\* pushed is the buffer the varbinds loop left, varbinds the one their
\* sequence left.
build_inner(b, req_id, ident, values, non_repeaters, max_repetitions, overflow_checks) ==
  CHOOSE after \in
    {push_constructed(b.len,
       push_integer(
         push_integer(
           push_integer(varbinds, I64FromU32(non_repeaters), overflow_checks),
           I64FromU32(max_repetitions), overflow_checks),
         I64FromI32(req_id), overflow_checks),
       ident)
       : varbinds \in
           {push_sequence(b.len, pushed)
              : pushed \in {push_varbinds(b, values, Len(values), overflow_checks)}}} : TRUE

\* build for Version::V1 and Version::V2C (the v3 branch is the v3 module's).
\* The result is the buffer; the call returns Ok(()) unless it panicked.
\* buf.reset() leaves len = 0, the before_len of the outer sequence.
build(b, version, community, ident, req_id, values, non_repeaters, max_repetitions, overflow_checks) ==
  CHOOSE after \in
    {push_sequence(0,
       push_integer(push_octet_string(inner, community),
                    I64FromI32(version), overflow_checks))
       : inner \in
           {build_inner(reset(b), req_id, ident, values, max_repetitions, non_repeaters,
                        overflow_checks)}} : TRUE

build_get(b, version, community, req_id, oid, overflow_checks) ==
  build(b, version, community, MSG_GET, req_id,
        << [oid |-> oid, val |-> ValueNull] >>, U32Bytes(0), U32Bytes(0), overflow_checks)

build_getnext(b, version, community, req_id, oid, overflow_checks) ==
  build(b, version, community, MSG_GET_NEXT, req_id,
        << [oid |-> oid, val |-> ValueNull] >>, U32Bytes(0), U32Bytes(0), overflow_checks)

build_getbulk(b, version, community, req_id, oids, non_repeaters, max_repetitions, overflow_checks) ==
  build(b, version, community, MSG_GET_BULK, req_id,
        [i \in 1..Len(oids) |-> [oid |-> oids[i], val |-> ValueNull]],
        non_repeaters, max_repetitions, overflow_checks)

build_set(b, version, community, req_id, values, overflow_checks) ==
  build(b, version, community, MSG_SET, req_id, values, U32Bytes(0), U32Bytes(0),
        overflow_checks)

---------------------------------------------------------------------------
(* Errors and results.  An Error is [kind, sub]: sub is the ReportError of  *)
(* UnexpectedReport, the io::ErrorKind of Send and Receive, the            *)
(* AuthErrorKind of AuthFailure, and "" otherwise.                          *)

Err(kind) == [kind |-> kind, sub |-> ""]
ErrSub(kind, sub) == [kind |-> kind, sub |-> sub]
NoError == Err("")

\* impl From<ReportError> for Error, used by `?` and `.into()` in validate.
ReportErr(report) == ErrSub("UnexpectedReport", report)

---------------------------------------------------------------------------
(* The Reader (asn1::AsnReader): a cursor over a borrowed slice, here the   *)
(* bytes not yet read.  Every read returns [err, val, rest].                *)

Rd(err, val, rest) == [err |-> err, val |-> val, rest |-> rest]
Tail2(s, n) == SubSeq(s, n + 1, Len(s))

RECURSIVE BeNat(_, _)
\* The big-endian value of the first k bytes of s (below 2^31).
BeNat(s, k) == IF k = 0 THEN 0 ELSE BeNat(s, k - 1) * 256 + s[k]

read_byte(s) ==
  IF Len(s) = 0 THEN Rd(Err("AsnEof"), 0, s) ELSE Rd(NoError, s[1], Tail(s))

peek_byte(s) ==
  IF Len(s) = 0 THEN Rd(Err("AsnEof"), 0, s) ELSE Rd(NoError, s[1], s)

\* The value of the digits of a long-form length with the leading zero
\* bytes dropped.  A length of more than 3 significant bytes fits no slice:
\* it is held as BUFFER_SIZE * 16 + 1, larger than any slice.
length_value(sig) ==
  IF Len(sig) > 3 THEN BUFFER_SIZE * 16 + 1 ELSE BeNat(sig, Len(sig))

\* Short form, or long form 0x80|k followed by k bytes; the indefinite
\* length 0x80 is rejected.
read_length(s) ==
  IF Len(s) = 0 THEN Rd(Err("AsnEof"), 0, s)
  ELSE LET head == s[1]
           tail == Tail(s)
       IN  IF head < 128 THEN Rd(NoError, head, tail)
           ELSE IF head = 255 \/ head = 128 THEN Rd(Err("AsnInvalidLen"), 0, s)
           ELSE IF head - 128 > 8 \/ head - 128 > Len(tail)
             THEN Rd(Err("AsnInvalidLen"), 0, s)
           ELSE Rd(NoError,
                   length_value(Tail2(SubSeq(tail, 1, head - 128),
                                      LeadingBytes(SubSeq(tail, 1, head - 128), 0, 1))),
                   Tail2(tail, head - 128))

\* The content of a TLV whose tag was accepted and whose length read as l.
raw_content(s, l) ==
  IF l.err # NoError THEN Rd(l.err, << >>, s)
  ELSE IF l.val > Len(l.rest) THEN Rd(Err("AsnInvalidLen"), << >>, s)
  ELSE Rd(NoError, SubSeq(l.rest, 1, l.val), Tail2(l.rest, l.val))

\* Assert the next tag, read the length, return the content and advance.
read_raw(s, expected_ident) ==
  LET i == read_byte(s)
  IN  IF i.err # NoError THEN Rd(i.err, << >>, s)
      ELSE IF i.val # expected_ident THEN Rd(Err("AsnWrongType"), << >>, s)
      ELSE raw_content(s, read_length(i.rest))

\* Signed big-endian content r of at most 8 bytes, sign-extended to an i64.
i64_from_raw(s, r) ==
  IF r.err # NoError THEN Rd(r.err, Repeat(0, I64_SIZE), s)
  ELSE IF Len(r.val) > I64_SIZE THEN Rd(Err("AsnIntOverflow"), Repeat(0, I64_SIZE), s)
  ELSE Rd(NoError,
          Repeat(IF Len(r.val) > 0 /\ r.val[1] >= 128 THEN 255 ELSE 0,
                 I64_SIZE - Len(r.val)) \o r.val,
          r.rest)

read_i64_type(s, expected_ident) == i64_from_raw(s, read_raw(s, expected_ident))

read_asn_integer(s) == read_i64_type(s, TYPE_INTEGER)

read_asn_octetstring(s) == read_raw(s, TYPE_OCTETSTRING)

read_asn_objectidentifier(s) == read_raw(s, TYPE_OBJECTIDENTIFIER)

\* The i64 r must lie in 0..2^32-1; the value is its low 4 bytes.
u32_from_i64(s, r) ==
  IF r.err # NoError THEN Rd(r.err, Repeat(0, 4), s)
  ELSE IF SubSeq(r.val, 1, 4) # Repeat(0, 4)
    THEN Rd(Err("AsnIntOverflow"), Repeat(0, 4), s)
  ELSE Rd(NoError, SubSeq(r.val, 5, 8), r.rest)

\* An unsigned 32-bit reader (Counter32, Unsigned32, Timeticks).
read_u32_type(s, expected_ident) == u32_from_i64(s, read_i64_type(s, expected_ident))

read_snmp_timeticks(s) == read_u32_type(s, TYPE_TIMETICKS)

\* The content r of an IpAddress must be 4 bytes.
ipaddress_from_raw(s, r) ==
  IF r.err # NoError THEN r
  ELSE IF Len(r.val) # 4 THEN Rd(Err("AsnInvalidLen"), << >>, s)
  ELSE r

read_snmp_ipaddress(s) == ipaddress_from_raw(s, read_raw(s, TYPE_IPADDRESS))

\* i64 range tests and conversions on the 8 bytes.
I64InI32(n) ==
  \/ SubSeq(n, 1, 4) = Repeat(0, 4) /\ n[5] < 128
  \/ SubSeq(n, 1, 4) = Repeat(255, 4) /\ n[5] >= 128

\* 0 <= n <= i32::MAX
I64InNonNegI32(n) == SubSeq(n, 1, 4) = Repeat(0, 4) /\ n[5] < 128

\* i32::try_from of an i64 in range.
I32FromI64(n) ==
  IF n[5] < 128
    THEN BeNat(SubSeq(n, 5, 8), 4)
    ELSE ((BeNat(<< n[5] - 128, n[6], n[7], n[8] >>, 4) - I32_MAX) - 1)

---------------------------------------------------------------------------
(* Oid (asn1_rs::Oid): the BER content bytes.  from, starts_with and iter   *)
(* as pdu.rs uses them.                                                     *)

ARC_CAP == 128 * 128 * 128 * 128

RECURSIVE Base128(_, _)
\* The base-128 digits of a sub-identifier, most significant first, the
\* continue bit set on all but the last (last = TRUE for the final byte).
Base128(n, last) ==
  LET d == IF last THEN n % 128 ELSE (n % 128) + 128
  IN  IF n < 128 THEN << d >> ELSE Base128(n \div 128, FALSE) \o << d >>

RECURSIVE OidTail(_, _)
OidTail(arcs, i) ==
  IF i > Len(arcs) THEN << >> ELSE Base128(arcs[i], TRUE) \o OidTail(arcs, i + 1)

\* Oid::from(&[u64]): 40 * first + second, then each arc in base 128.
OidFrom(arcs) == << arcs[1] * 40 + arcs[2] >> \o OidTail(arcs, 3)

\* Oid::starts_with: a prefix test on the content bytes.
starts_with(oid, needle) ==
  Len(oid) >= Len(needle) /\ SubSeq(oid, 1, Len(needle)) = needle

RECURSIVE GroupEnd(_, _)
\* The index of the last byte of the sub-identifier that starts at i: the
\* first byte from i on with the continue bit clear, or the last byte.
GroupEnd(s, i) == IF i >= Len(s) \/ s[i] < 128 THEN i ELSE GroupEnd(s, i + 1)

RECURSIVE ArcValue(_, _, _)
\* res = (res << 7) + (o & 0x7f) over s[i..j]; a value of 2^28 or more is
\* held as ARC_CAP, which equals none of the report tables' sub-ids.
ArcValue(s, i, j) ==
  IF i > j THEN 0
  ELSE LET hi == ArcValue(s, i, j - 1)
       IN  IF hi >= ARC_CAP \div 128 THEN ARC_CAP ELSE hi * 128 + (s[j] % 128)

RECURSIVE ArcsFrom(_, _)
ArcsFrom(s, i) ==
  IF i > Len(s) THEN << >>
  ELSE LET j == GroupEnd(s, i)
       IN  << ArcValue(s, i, j) >> \o ArcsFrom(s, j + 1)

RECURSIVE MaxBits(_, _)
\* iter()'s fold: 7 bits per byte of the widest terminated sub-identifier.
MaxBits(s, i) ==
  IF i > Len(s) THEN 0
  ELSE LET j    == GroupEnd(s, i)
           here == IF s[j] < 128 THEN 7 * (j - i + 1) ELSE 0
           rest == MaxBits(s, j + 1)
       IN  IF here > rest THEN here ELSE rest

\* Oid::iter(): None when an arc does not fit 64 bits, else the arcs, the
\* first byte giving two (byte / 40 and byte % 40).
OidIter(oid) ==
  IF MaxBits(oid, 2) > 64 THEN [some |-> FALSE, arcs |-> << >>]
  ELSE IF Len(oid) = 0 THEN [some |-> TRUE, arcs |-> << >>]
  ELSE IF Len(oid) = 1 /\ oid[1] = 0 THEN [some |-> TRUE, arcs |-> << 0 >>]
  ELSE [some |-> TRUE,
        arcs |-> << oid[1] \div 40, oid[1] % 40 >> \o ArcsFrom(oid, 2)]

\* oid.iter().and_then(|mut it| it.nth(n)): [some, val].
IterNth(oid, n) ==
  LET it == OidIter(oid)
  IN  IF it.some /\ n + 1 <= Len(it.arcs)
        THEN [some |-> TRUE, val |-> it.arcs[n + 1]]
        ELSE [some |-> FALSE, val |-> 0]

---------------------------------------------------------------------------
(* pdu.rs: the report tables *)

SNMP_MPD_STATS == OidFrom(<< 1, 3, 6, 1, 6, 3, 11, 2, 1 >>)
SNMP_MPD_STATS_OID_LEN == Len(OidIter(SNMP_MPD_STATS).arcs)
REPORT_SNMP_UNKNOWN_SECURITY_MODELS == 1
REPORT_SNMP_INVALID_MSGS == 2
REPORT_SNMP_UNKNOWN_PDU_HANDLERS == 3

USM_STATS == OidFrom(<< 1, 3, 6, 1, 6, 3, 15, 1, 1 >>)
USM_STATS_OID_LEN == Len(OidIter(USM_STATS).arcs)
REPORT_USM_STATS_UNSUPPORTED_SEC_LEVELS == 1
REPORT_USM_STATS_NOT_IN_TIME_WINDOWS == 2
REPORT_USM_STATS_UNKNOWN_USER_NAMES == 3
REPORT_USM_STATS_UNKNOWN_ENGINE_IDS == 4
REPORT_USM_STATS_WRONG_DIGESTS == 5
REPORT_USM_STATS_DECRYPTION_ERRORS == 6

TARGET_STATS == OidFrom(<< 1, 3, 6, 1, 6, 3, 12, 1 >>)
TARGET_STATS_OID_LEN == Len(OidIter(TARGET_STATS).arcs)
REPORT_SNMP_UNAVAILABLE_CONTEXTS == 4
REPORT_SNMP_UNKNOWN_CONTEXTS == 5

---------------------------------------------------------------------------
(* MessageType and Varbinds (lib.rs) *)

from_ident(ident) ==
  CASE ident = MSG_GET      -> [err |-> NoError, val |-> "Get"]
    [] ident = MSG_GET_NEXT -> [err |-> NoError, val |-> "GetNext"]
    [] ident = MSG_GET_BULK -> [err |-> NoError, val |-> "GetBulk"]
    [] ident = MSG_RESPONSE -> [err |-> NoError, val |-> "Response"]
    [] ident = MSG_SET      -> [err |-> NoError, val |-> "Set"]
    [] ident = MSG_INFORM   -> [err |-> NoError, val |-> "InformRequest"]
    [] ident = MSG_TRAP_V1  -> [err |-> NoError, val |-> "TrapV1"]
    [] ident = MSG_TRAP_V2  -> [err |-> NoError, val |-> "TrapV2"]
    [] ident = MSG_REPORT   -> [err |-> NoError, val |-> "Report"]
    [] OTHER                -> [err |-> Err("AsnWrongType"), val |-> ""]

MessageTypes ==
  {"Get", "GetNext", "GetBulk", "Response", "Set", "InformRequest", "TrapV1",
   "TrapV2", "Report"}

NoValue == [some |-> FALSE, val |-> ValueNull]

\* The Value of the given kind read as r, if the read succeeded.
value_of(r, kind) ==
  IF r.err # NoError THEN NoValue ELSE [some |-> TRUE, val |-> Value(kind, r.val)]

\* A value with no content (Null and the three exceptions).
value_empty(r, kind) ==
  IF r.err # NoError \/ Len(r.val) # 0 THEN NoValue
  ELSE [some |-> TRUE, val |-> Value(kind, << >>)]

value_boolean(r) ==
  IF r.err # NoError \/ Len(r.val) # 1 THEN NoValue
  ELSE [some |-> TRUE, val |-> Value("Boolean", r.val[1] # 0)]

\* One TLV read as a Value, dispatching on its tag: [some, val].
read_value(s) ==
  IF Len(s) = 0 THEN NoValue
  ELSE CASE s[1] = TYPE_BOOLEAN -> value_boolean(read_raw(s, TYPE_BOOLEAN))
         [] s[1] = TYPE_INTEGER -> value_of(read_asn_integer(s), "Integer")
         [] s[1] = TYPE_OCTETSTRING -> value_of(read_asn_octetstring(s), "OctetString")
         [] s[1] = TYPE_NULL -> value_empty(read_raw(s, TYPE_NULL), "Null")
         [] s[1] = TYPE_OBJECTIDENTIFIER ->
              value_of(read_asn_objectidentifier(s), "ObjectIdentifier")
         [] s[1] = TYPE_IPADDRESS -> value_of(read_snmp_ipaddress(s), "IpAddress")
         [] s[1] = TYPE_COUNTER32 ->
              value_of(read_u32_type(s, TYPE_COUNTER32), "Counter32")
         [] s[1] = TYPE_UNSIGNED32 ->
              value_of(read_u32_type(s, TYPE_UNSIGNED32), "Unsigned32")
         [] s[1] = TYPE_TIMETICKS -> value_of(read_snmp_timeticks(s), "Timeticks")
         [] s[1] = TYPE_OPAQUE -> value_of(read_raw(s, TYPE_OPAQUE), "Opaque")
         [] s[1] = TYPE_COUNTER64 ->
              value_of(read_i64_type(s, TYPE_COUNTER64), "Counter64")
         [] s[1] = SNMP_NOSUCHOBJECT ->
              value_empty(read_raw(s, SNMP_NOSUCHOBJECT), "NoSuchObject")
         [] s[1] = SNMP_NOSUCHINSTANCE ->
              value_empty(read_raw(s, SNMP_NOSUCHINSTANCE), "NoSuchInstance")
         [] s[1] = SNMP_ENDOFMIBVIEW ->
              value_empty(read_raw(s, SNMP_ENDOFMIBVIEW), "EndOfMibView")
         [] OTHER -> NoValue

\* Varbinds::next on the varbind-list content s: [some, oid, val, rest].
\* The item is None when the sequence, the name or the value fails to read.
NoItem(s) == [some |-> FALSE, oid |-> << >>, val |-> ValueNull, rest |-> s]

varbind_value(s, seq, name, v) ==
  IF ~v.some THEN NoItem(s)
  ELSE [some |-> TRUE, oid |-> name.val, val |-> v.val, rest |-> seq.rest]

varbind_name(s, seq, name) ==
  IF name.err # NoError THEN NoItem(s)
  ELSE varbind_value(s, seq, name, read_value(name.rest))

varbind_seq(s, seq) ==
  IF seq.err # NoError THEN NoItem(s)
  ELSE varbind_name(s, seq, read_asn_objectidentifier(seq.val))

varbinds_next(s) == varbind_seq(s, read_raw(s, TYPE_SEQUENCE))

---------------------------------------------------------------------------
(* pdu.rs: Pdu, from_bytes_inner, parse_trap_v1, validate *)

NoTrapInfo ==
  [some |-> FALSE, enterprise |-> << >>, agent_addr |-> << >>,
   generic_trap |-> Repeat(0, I64_SIZE), specific_trap |-> Repeat(0, I64_SIZE),
   timestamp |-> Repeat(0, 4)]

NoPdu ==
  [version |-> 0, community |-> << >>, message_type |-> "", req_id |-> 0,
   error_status |-> 0, error_index |-> 0, varbinds |-> << >>,
   v1_trap_info |-> NoTrapInfo]

\* A decode result: the error, or the Pdu, or (v3 = TRUE) the outcome of
\* the v3 module's parse_v3, to which the frame was handed.
Decoded(pdu) == [err |-> NoError, pdu |-> pdu, v3 |-> FALSE]
DecodeErr(e) == [err |-> e, pdu |-> NoPdu, v3 |-> FALSE]
DecodeV3 == [err |-> NoError, pdu |-> NoPdu, v3 |-> TRUE]

\* Each step of a decode below takes the Pdu decoded so far and the result r
\* of the read the source makes at that step: it returns the error (the `?`
\* of the source) or goes on with the next read, from r.rest.  The steps are
\* written last one first.

\* parse_trap_v1: let varbind_bytes = rdr.read_raw(TYPE_SEQUENCE)?; Ok(Pdu)
trap_varbinds(pdu, r) ==
  IF r.err # NoError THEN DecodeErr(r.err)
  ELSE Decoded([pdu EXCEPT !.varbinds = r.val])

\* let timestamp = rdr.read_snmp_timeticks()?
trap_timestamp(pdu, r) ==
  IF r.err # NoError THEN DecodeErr(r.err)
  ELSE trap_varbinds([pdu EXCEPT !.v1_trap_info.timestamp = r.val],
                     read_raw(r.rest, TYPE_SEQUENCE))

\* let specific_code = rdr.read_asn_integer()?
trap_specific_code(pdu, r) ==
  IF r.err # NoError THEN DecodeErr(r.err)
  ELSE trap_timestamp([pdu EXCEPT !.v1_trap_info.specific_trap = r.val],
                      read_snmp_timeticks(r.rest))

\* let generic_type = rdr.read_asn_integer()?
trap_generic_type(pdu, r) ==
  IF r.err # NoError THEN DecodeErr(r.err)
  ELSE trap_specific_code([pdu EXCEPT !.v1_trap_info.generic_trap = r.val],
                          read_asn_integer(r.rest))

\* let addr = IpAddr::V4(Ipv4Addr::from(rdr.read_snmp_ipaddress()?))
trap_addr(pdu, r) ==
  IF r.err # NoError THEN DecodeErr(r.err)
  ELSE trap_generic_type([pdu EXCEPT !.v1_trap_info.agent_addr = r.val],
                         read_asn_integer(r.rest))

\* let oid = rdr.read_asn_objectidentifier()?
trap_oid(pdu, r) ==
  IF r.err # NoError THEN DecodeErr(r.err)
  ELSE trap_addr([pdu EXCEPT !.v1_trap_info.enterprise = r.val,
                             !.v1_trap_info.some = TRUE],
                 read_snmp_ipaddress(r.rest))

parse_trap_v1(rdr, version, community) ==
  IF version # VERSION_V1 THEN DecodeErr(Err("AsnWrongType"))
  ELSE trap_oid([NoPdu EXCEPT !.version = version, !.community = community,
                              !.message_type = "TrapV1"],
                read_asn_objectidentifier(rdr))

\* from_bytes_inner: let varbind_bytes = response_pdu.read_raw(TYPE_SEQUENCE)?
pdu_varbinds(pdu, r) ==
  IF r.err # NoError THEN DecodeErr(r.err)
  ELSE Decoded([pdu EXCEPT !.varbinds = r.val])

\* error_index read without its range check.
pdu_error_index_unchecked(pdu, r) ==
  IF r.err # NoError THEN DecodeErr(r.err)
  ELSE pdu_varbinds([pdu EXCEPT !.error_index = I32FromI64(r.val)],
                    read_raw(r.rest, TYPE_SEQUENCE))

\* let error_index = response_pdu.read_asn_integer()?, and its range check
pdu_error_index(pdu, r) ==
  IF r.err # NoError THEN DecodeErr(r.err)
  ELSE IF ~I64InNonNegI32(r.val) THEN DecodeErr(Err("ValueOutOfRange"))
  ELSE pdu_varbinds([pdu EXCEPT !.error_index = I32FromI64(r.val)],
                    read_raw(r.rest, TYPE_SEQUENCE))

\* let error_status = response_pdu.read_asn_integer()?, and its range check
pdu_error_status(pdu, r) ==
  IF r.err # NoError THEN DecodeErr(r.err)
  ELSE IF ~I64InNonNegI32(r.val) THEN DecodeErr(Err("ValueOutOfRange"))
  ELSE pdu_error_index([pdu EXCEPT !.error_status = I32FromI64(r.val)],
                       read_asn_integer(r.rest))

\* let req_id = response_pdu.read_asn_integer()?, and its range check
pdu_req_id(pdu, r) ==
  IF r.err # NoError THEN DecodeErr(r.err)
  ELSE IF ~I64InI32(r.val) THEN DecodeErr(Err("ValueOutOfRange"))
  ELSE pdu_error_status([pdu EXCEPT !.req_id = I32FromI64(r.val)],
                        read_asn_integer(r.rest))

\* let mut response_pdu = AsnReader::from_bytes(rdr.read_raw(ident)?), and
\* the TrapV1 branch
pdu_response(pdu, r) ==
  IF r.err # NoError THEN DecodeErr(r.err)
  ELSE IF pdu.message_type = "TrapV1"
    THEN parse_trap_v1(r.val, pdu.version, pdu.community)
  ELSE pdu_req_id(pdu, read_asn_integer(r.val))

\* let message_type = MessageType::from_ident(ident)?
pdu_message_type(pdu, rest, ident, message_type) ==
  IF message_type.err # NoError THEN DecodeErr(message_type.err)
  ELSE pdu_response([pdu EXCEPT !.message_type = message_type.val],
                    read_raw(rest, ident))

\* let ident = rdr.peek_byte()?
pdu_ident(pdu, r) ==
  IF r.err # NoError THEN DecodeErr(r.err)
  ELSE pdu_message_type(pdu, r.rest, r.val, from_ident(r.val))

\* let community = rdr.read_asn_octetstring()?
pdu_community(pdu, r) ==
  IF r.err # NoError THEN DecodeErr(r.err)
  ELSE pdu_ident([pdu EXCEPT !.community = r.val], peek_byte(r.rest))

\* from_bytes_inner without the first version check: every version that is
\* not 3 goes on to the community.
pdu_version_any(r, feature_v3, security) ==
  IF r.err # NoError THEN DecodeErr(r.err)
  ELSE IF r.val = I64FromI32(VERSION_V3)
    THEN IF feature_v3
           THEN IF security THEN DecodeV3
                ELSE DecodeErr(ErrSub("AuthFailure", "SecurityNotProvided"))
           ELSE DecodeErr(Err("UnsupportedVersion"))
  ELSE pdu_community([NoPdu EXCEPT !.version = I32FromI64(r.val)],
                     read_asn_octetstring(r.rest))

\* let version = rdr.read_asn_integer()?, the version checks and the v3
\* branch.  feature_v3: the crate is built with the "v3" feature; security:
\* the caller passed Some(security).
pdu_version(r, feature_v3, security) ==
  IF r.err # NoError THEN DecodeErr(r.err)
  ELSE IF /\ r.val # I64FromI32(VERSION_V1)
          /\ r.val # I64FromI32(VERSION_V2C)
          /\ r.val # I64FromI32(VERSION_V3)
    THEN DecodeErr(Err("UnsupportedVersion"))
  ELSE IF r.val = I64FromI32(VERSION_V3)
    THEN IF feature_v3
           THEN IF security THEN DecodeV3
                ELSE DecodeErr(ErrSub("AuthFailure", "SecurityNotProvided"))
           ELSE DecodeErr(Err("UnsupportedVersion"))
  ELSE pdu_community([NoPdu EXCEPT !.version = I32FromI64(r.val)],
                     read_asn_octetstring(r.rest))

\* let seq = AsnReader::from_bytes(bytes).read_raw(TYPE_SEQUENCE)?
pdu_seq(r, feature_v3, security) ==
  IF r.err # NoError THEN DecodeErr(r.err)
  ELSE pdu_version(read_asn_integer(r.val), feature_v3, security)

from_bytes_inner(bytes, feature_v3, security) ==
  pdu_seq(read_raw(bytes, TYPE_SEQUENCE), feature_v3, security)

\* The sub-id one place further than the one after the prefix.
selecting_subid_one_further(oid, prefix_len) == IterNth(oid, prefix_len + 1)

\* The sub-id validate selects under a prefix of prefix_len arcs.
selecting_subid(oid, prefix_len) == IterNth(oid, prefix_len)

\* The three matches on `last`, an Option<u64>: None is NoVarbindOid.
mpd_report(last) ==
  IF ~last.some THEN "NoVarbindOid"
  ELSE CASE last.val = REPORT_SNMP_UNKNOWN_SECURITY_MODELS -> "UnknownSecurityModel"
         [] last.val = REPORT_SNMP_INVALID_MSGS            -> "InvalidMessage"
         [] last.val = REPORT_SNMP_UNKNOWN_PDU_HANDLERS    -> "BadVersion"
         [] OTHER                                          -> "UnknownReport"

usm_report(last) ==
  IF ~last.some THEN "NoVarbindOid"
  ELSE CASE last.val = REPORT_USM_STATS_UNSUPPORTED_SEC_LEVELS -> "UnsupportedSecurityLevel"
         [] last.val = REPORT_USM_STATS_NOT_IN_TIME_WINDOWS    -> "NotInTimeWindow"
         [] last.val = REPORT_USM_STATS_UNKNOWN_USER_NAMES     -> "UnknownUserName"
         [] last.val = REPORT_USM_STATS_UNKNOWN_ENGINE_IDS     -> "UnknownEngineId"
         [] last.val = REPORT_USM_STATS_WRONG_DIGESTS          -> "AuthenticationFailure"
         [] last.val = REPORT_USM_STATS_DECRYPTION_ERRORS      -> "DecryptionError"
         [] OTHER                                              -> "UnknownReport"

target_report(last) ==
  IF ~last.some THEN "NoVarbindOid"
  ELSE CASE last.val = REPORT_SNMP_UNAVAILABLE_CONTEXTS -> "BadContext"
         [] last.val = REPORT_SNMP_UNKNOWN_CONTEXTS     -> "BadContext"
         [] OTHER                                       -> "UnknownReport"

\* The Report branch of validate on the first varbind: the ReportError.
report_of(first_varbind) ==
  IF ~first_varbind.some THEN "NoVarbind"
  ELSE IF starts_with(first_varbind.oid, SNMP_MPD_STATS)
    THEN mpd_report(selecting_subid(first_varbind.oid, SNMP_MPD_STATS_OID_LEN))
  ELSE IF starts_with(first_varbind.oid, USM_STATS)
    THEN usm_report(selecting_subid(first_varbind.oid, USM_STATS_OID_LEN))
  ELSE IF starts_with(first_varbind.oid, TARGET_STATS)
    THEN target_report(selecting_subid(first_varbind.oid, TARGET_STATS_OID_LEN))
  ELSE "UnknownReport"

classify_report(pdu) == report_of(varbinds_next(pdu.varbinds))

\* validate with the community check left out.
validate_fields_any_community(pdu, expected_type, expected_req_id, expected_community) ==
  IF pdu.message_type # expected_type THEN Err("AsnWrongType")
  ELSE IF pdu.req_id # expected_req_id THEN Err("RequestIdMismatch")
  ELSE NoError

\* validate with the req_id check made before the type check.
validate_fields_req_id_first(pdu, expected_type, expected_req_id, expected_community) ==
  IF pdu.req_id # expected_req_id THEN Err("RequestIdMismatch")
  ELSE IF pdu.message_type # expected_type THEN Err("AsnWrongType")
  ELSE IF pdu.community # expected_community THEN Err("CommunityMismatch")
  ELSE NoError

\* The checks of validate after the Report branch.
validate_fields(pdu, expected_type, expected_req_id, expected_community) ==
  IF pdu.message_type # expected_type THEN Err("AsnWrongType")
  ELSE IF pdu.req_id # expected_req_id THEN Err("RequestIdMismatch")
  ELSE IF pdu.community # expected_community THEN Err("CommunityMismatch")
  ELSE NoError

\* validate with the Report branch placed after the other checks.
validate_report_last(pdu, expected_type, expected_req_id, expected_community) ==
  IF validate_fields(pdu, expected_type, expected_req_id, expected_community) # NoError
    THEN validate_fields(pdu, expected_type, expected_req_id, expected_community)
  ELSE IF pdu.message_type = "Report" THEN ReportErr(classify_report(pdu))
  ELSE NoError

\* validate: NoError is Ok(()).
validate(pdu, expected_type, expected_req_id, expected_community) ==
  IF pdu.message_type = "Report"
    THEN ReportErr(classify_report(pdu))
    ELSE validate_fields(pdu, expected_type, expected_req_id, expected_community)

---------------------------------------------------------------------------
(* Bounds and inputs of the session model *)

MaxCalls == 2

\* The number of replies that may reach the socket late, after the call they
\* answer has returned.
MaxLate == 1

OidSysDescr == OidFrom(<< 1, 3, 6, 1, 2, 1, 1, 1, 0 >>)
OidSysName  == OidFrom(<< 1, 3, 6, 1, 2, 1, 1, 5, 0 >>)

Public  == << 112, 117, 98 >>
Private == << 112, 114, 105, 118 >>

\* starting_req_id: the counter wraps at the first increment.
StartingReqIds == {I32_MAX}

\* Payload lengths of the octet string of a SET: a short one; one whose
\* message fills the buffer exactly (with a 4-byte req_id, the community
\* Public and the oid OidSysDescr the message is the payload and 50 bytes);
\* one whose message is 2 bytes too long; and BUFFER_SIZE itself.
PayloadLens == {1, BUFFER_SIZE - 50, BUFFER_SIZE - 48, BUFFER_SIZE}

SetValues(n) == << [oid |-> OidSysDescr, val |-> Value("OctetString", Repeat(120, n))] >>

SendErrorKinds == {"ConnectionRefused"}

\* What the agent may send back for a request.
ReplyKinds ==
  {"good", "bad_id", "bad_community", "wrong_type", "report", "garbage", "v3"}

---------------------------------------------------------------------------
(* syncsession.rs: SyncSession over a connected UDP socket.                *)

VARIABLES
  overflow_checks,  \* the build has integer overflow checks (a debug build)
  feature_v3,       \* the build has the "v3" feature
  version,          \* SyncSession.version
  community,        \* SyncSession.community
  req_id,           \* SyncSession.req_id, a Wrapping<i32>
  send_pdu,         \* SyncSession.send_pdu
  pc,               \* "idle", "send", "recv" (blocked in the call), "panicked"
  call,             \* the locals of the current (or last) call
  wire,             \* requests sent whose reply has not reached the socket
  sockq,            \* datagrams queued in the socket, oldest first
  result,           \* what the call returned (status "none" while it runs)
  calls,            \* the number of calls made
  events,           \* the socket operations of the current (or last) call
  timed_out,        \* the calls that returned Receive(TimedOut)
  late,             \* the number of replies that reached the socket late
  given,            \* the inputs drawn for a function applied on its own
  outcome           \* what that function returned

vars ==
  << overflow_checks, feature_v3, version, community, req_id, send_pdu,
     pc, call, wire, sockq, result, calls, events, timed_out, late,
     given, outcome >>

config  == << overflow_checks, feature_v3, version, community >>
alone   == << given, outcome >>
network == << wire, sockq >>

\* An increment that stops at i32::MAX.
saturating_inc(x) == IF x = I32_MAX THEN I32_MAX ELSE x + 1

\* Wrapping<i32> += Wrapping(1)
wrapping_inc(x) == IF x = I32_MAX THEN I32_MIN ELSE x + 1

\* No datagram was received.
NoDatagram == [answers |-> 0, good |-> FALSE, own |-> FALSE]

NoResult ==
  [serial |-> 0, status |-> "none", err |-> NoError, pdu |-> NoPdu, from |-> NoDatagram]

\* What a call returned, and what is known of the datagram it received:
\* the call that datagram answers, whether it is the agent's good response,
\* and whether the good response to this very call was in the socket when
\* the call received.
Returned(status, err, pdu, from) ==
  [serial |-> call.serial, status |-> status, err |-> err, pdu |-> pdu, from |-> from]

NoGiven == [fn |-> "none"]
NoOutcome == [done |-> FALSE]

\* The session just constructed, nothing sent yet.
Fresh ==
  /\ send_pdu = BufDefault
  /\ pc = "idle"
  /\ call = [serial |-> 0, op |-> "", req_id |-> 0, needed |-> 0]
  /\ wire = {}
  /\ sockq = << >>
  /\ result = NoResult
  /\ calls = 0
  /\ events = << >>
  /\ timed_out = {}
  /\ late = 0

\* SyncSession::new through new_v1 / new_v2c.
Init ==
  /\ overflow_checks \in BOOLEAN
  /\ feature_v3 \in BOOLEAN
  /\ version \in {VERSION_V1, VERSION_V2C}
  /\ community = Public
  /\ req_id \in StartingReqIds
  /\ Fresh
  /\ given = NoGiven
  /\ outcome = NoOutcome

---------------------------------------------------------------------------
(* The size a message needs, whatever the capacity (for the claims about   *)
(* messages that do not fit).                                              *)

TlvSize(n) == 1 + (IF n < 128 THEN 1 ELSE 1 + SignificantBytes(n)) + n

IntSize(n) == TlvSize(push_i64(BufDefault, n, FALSE).count)

ValueSize(val) ==
  CASE val.kind \in {"Null", "EndOfMibView", "NoSuchObject", "NoSuchInstance"} -> 2
    [] val.kind = "Boolean" -> 3
    [] val.kind \in {"Integer", "Counter64"} -> IntSize(val.v)
    [] val.kind \in {"Counter32", "Unsigned32", "Timeticks"} -> IntSize(I64FromU32(val.v))
    [] OTHER -> TlvSize(Len(val.v))

RECURSIVE VarbindsSize(_, _)
VarbindsSize(values, i) ==
  IF i > Len(values) THEN 0
  ELSE TlvSize(TlvSize(Len(values[i].oid)) + ValueSize(values[i].val))
       + VarbindsSize(values, i + 1)

MessageSize(ver, comm, id, values, non_repeaters, max_repetitions) ==
  TlvSize(IntSize(I64FromI32(ver)) + TlvSize(Len(comm))
          + TlvSize(IntSize(I64FromI32(id)) + IntSize(I64FromU32(non_repeaters))
                    + IntSize(I64FromU32(max_repetitions))
                    + TlvSize(VarbindsSize(values, 1))))

---------------------------------------------------------------------------
(* The request operations up to their first socket operation:              *)
(* prepare (nothing without security), the local req_id, build_xxx(..)?    *)

\* The common part: b is the buffer build_xxx left, needed the size of the
\* message asked for.
begin_call(op, b, needed) ==
  /\ pc = "idle"
  /\ calls < MaxCalls
  /\ calls' = calls + 1
  /\ call' = [serial |-> calls + 1, op |-> op, req_id |-> req_id, needed |-> needed]
  /\ send_pdu' = b
  /\ events' = << >>
  /\ IF b.panic
       THEN /\ pc' = "panicked"
            /\ result' = [serial |-> calls + 1, status |-> "panic", err |-> NoError,
                          pdu |-> NoPdu, from |-> NoDatagram]
       ELSE /\ pc' = "send"
            /\ result' = NoResult
  /\ UNCHANGED << alone, config, req_id, network, timed_out, late >>

get(oid) ==
  begin_call("get",
             build_get(send_pdu, version, community, req_id, oid, overflow_checks),
             MessageSize(version, community, req_id,
                         << [oid |-> oid, val |-> ValueNull] >>, U32Bytes(0), U32Bytes(0)))

getnext(oid) ==
  begin_call("getnext",
             build_getnext(send_pdu, version, community, req_id, oid, overflow_checks),
             MessageSize(version, community, req_id,
                         << [oid |-> oid, val |-> ValueNull] >>, U32Bytes(0), U32Bytes(0)))

getbulk(oids, non_repeaters, max_repetitions) ==
  begin_call("getbulk",
             build_getbulk(send_pdu, version, community, req_id, oids,
                           non_repeaters, max_repetitions, overflow_checks),
             MessageSize(version, community, req_id,
                         [i \in 1..Len(oids) |-> [oid |-> oids[i], val |-> ValueNull]],
                         non_repeaters, max_repetitions))

set(values) ==
  begin_call("set",
             build_set(send_pdu, version, community, req_id, values, overflow_checks),
             MessageSize(version, community, req_id, values, U32Bytes(0), U32Bytes(0)))

---------------------------------------------------------------------------
(* send_and_recv and the rest of the operation *)

\* What the agent keeps of a request it received: the fields of the decoded
\* request that its replies echo.  A datagram it cannot decode it drops.
agent_keeps(serial, req, first) ==
  IF ~first.some THEN {}
  ELSE {[serial |-> serial, version |-> req.pdu.version,
         community |-> req.pdu.community, req_id |-> req.pdu.req_id,
         oid |-> first.oid]}

agent_decoded(serial, req) ==
  IF req.err # NoError THEN {}
  ELSE agent_keeps(serial, req, varbinds_next(req.pdu.varbinds))

AgentView(bytes, serial) == agent_decoded(serial, from_bytes_inner(bytes, FALSE, FALSE))

\* socket.send(pdu) succeeded: one datagram is on its way.
send_ok ==
  /\ pc = "send"
  /\ wire' = wire \cup AgentView(send_pdu.data, call.serial)
  /\ events' = Append(events, "send")
  /\ pc' = "recv"
  /\ UNCHANGED << alone, config, req_id, send_pdu, call, sockq, result, calls,
                  timed_out, late >>

\* socket.send(pdu) failed: map_err(Error::Send)?
send_err ==
  /\ pc = "send"
  /\ \E kind \in SendErrorKinds :
       result' = Returned("err", ErrSub("Send", kind), NoPdu, NoDatagram)
  /\ events' = Append(events, "send_err")
  /\ pc' = "idle"
  /\ UNCHANGED << alone, config, req_id, send_pdu, call, network, calls, timed_out, late >>

\* What the operation does with the bytes socket.recv returned:
\* from_bytes_inner(..)?, self.req_id += 1, validate(Response, req_id, ..)?.
\* [req_id, status, err, pdu]
after_validate(resp, v) ==
  IF v # NoError
    THEN [req_id |-> wrapping_inc(req_id), status |-> "err", err |-> v, pdu |-> NoPdu]
    ELSE [req_id |-> wrapping_inc(req_id), status |-> "ok", err |-> NoError,
          pdu |-> resp.pdu]

\* A decode that counts the reply whether it decoded or not.
after_decode_counting(resp) ==
  IF resp.err # NoError
    THEN [req_id |-> wrapping_inc(req_id), status |-> "err", err |-> resp.err, pdu |-> NoPdu]
    ELSE after_validate(resp, validate(resp.pdu, "Response", call.req_id, community))

after_decode(resp) ==
  IF resp.err # NoError
    THEN [req_id |-> req_id, status |-> "err", err |-> resp.err, pdu |-> NoPdu]
    ELSE after_validate(resp, validate(resp.pdu, "Response", call.req_id, community))

after_recv(bytes) == after_decode(from_bytes_inner(bytes, feature_v3, FALSE))

\* The good response to the current call is queued in the socket.
OwnResponseQueued ==
  \E i \in DOMAIN sockq : sockq[i].answers = call.serial /\ sockq[i].good

\* The operation returns r for the datagram d it received.
return_recv(r, d) ==
  /\ req_id' = r.req_id
  /\ result' = Returned(r.status, r.err, r.pdu,
                        [answers |-> d.answers, good |-> d.good,
                         own |-> OwnResponseQueued])

\* socket.recv(out) returned the oldest queued datagram, cut to the buffer.
recv_ok ==
  /\ pc = "recv"
  /\ sockq # << >>
  /\ return_recv(after_recv(SubSeq(Head(sockq).bytes, 1,
                                   IF Len(Head(sockq).bytes) < BUFFER_SIZE
                                     THEN Len(Head(sockq).bytes) ELSE BUFFER_SIZE)),
                 Head(sockq))
  /\ sockq' = Tail(sockq)
  /\ events' = Append(events, "recv")
  /\ pc' = "idle"
  /\ UNCHANGED << alone, config, send_pdu, call, wire, calls, timed_out, late >>

\* A receive that, on a timeout, has the operation send its datagram again.
recv_timeout_resend ==
  /\ pc = "recv"
  /\ sockq = << >>
  /\ events' = Append(events, "recv_err")
  /\ pc' = "send"
  /\ UNCHANGED << alone, config, req_id, send_pdu, call, network, result, calls,
                  timed_out, late >>

\* socket.recv(out) failed: nothing arrived within the read timeout.
recv_timeout ==
  /\ pc = "recv"
  /\ sockq = << >>
  /\ result' = Returned("err", ErrSub("Receive", "TimedOut"), NoPdu, NoDatagram)
  /\ timed_out' = timed_out \cup {call.serial}
  /\ events' = Append(events, "recv_err")
  /\ pc' = "idle"
  /\ UNCHANGED << alone, config, req_id, send_pdu, call, network, calls, late >>

---------------------------------------------------------------------------
(* The agent and the network *)

ReportOid == USM_STATS \o << REPORT_USM_STATS_NOT_IN_TIME_WINDOWS, 0 >>

\* A message as the agent encodes it.
ReplyMsg(ver, comm, ident, id, values) ==
  build(BufDefault, ver, comm, ident, id, values, U32Bytes(0), U32Bytes(0), FALSE).data

\* The varbinds of a reply: the oid asked for with the value 7.
ReplyValues(req) == << [oid |-> req.oid, val |-> Value("Integer", I64FromI32(7))] >>

\* The reply of the given kind to a request: its bytes.
ReplyBytes(kind, req) ==
  CASE kind = "good" ->
         ReplyMsg(req.version, req.community, MSG_RESPONSE, req.req_id, ReplyValues(req))
    [] kind = "bad_id" ->
         ReplyMsg(req.version, req.community, MSG_RESPONSE, wrapping_inc(req.req_id),
                  ReplyValues(req))
    [] kind = "bad_community" ->
         ReplyMsg(req.version, Private, MSG_RESPONSE, req.req_id, ReplyValues(req))
    [] kind = "wrong_type" ->
         ReplyMsg(req.version, req.community, MSG_GET, req.req_id, ReplyValues(req))
    [] kind = "report" ->
         ReplyMsg(req.version, req.community, MSG_REPORT, req.req_id,
                  << [oid |-> ReportOid, val |-> Value("Counter32", U32Bytes(1))] >>)
    [] kind = "v3" ->
         ReplyMsg(VERSION_V3, req.community, MSG_RESPONSE, req.req_id, ReplyValues(req))
    [] OTHER -> << TYPE_SEQUENCE, 128 >>

\* The agent answers a request and the answer reaches the socket, at once
\* or late, after the call it answers has returned.  A request that is
\* lost, or whose answer is lost, stays in wire for ever.
agent_reply ==
  \E m \in wire :
    LET is_late == m.serial < calls \/ pc \in {"idle", "panicked"}
    IN  /\ is_late => late < MaxLate
        /\ late' = IF is_late THEN late + 1 ELSE late
        /\ \E kind \in ReplyKinds :
             sockq' = Append(sockq, [bytes |-> ReplyBytes(kind, m),
                                     answers |-> m.serial, good |-> kind = "good"])
        /\ wire' = wire \ {m}
        /\ UNCHANGED << alone, config, req_id, send_pdu, pc, call, result, calls,
                        events, timed_out >>

Next ==
  \/ \E oid \in {OidSysDescr} : get(oid)
  \/ \E oid \in {OidSysDescr} : getnext(oid)
  \/ getbulk(<< OidSysDescr, OidSysName >>, U32Bytes(1), U32Bytes(10))
  \/ \E n \in PayloadLens : set(SetValues(n))
  \/ send_ok
  \/ send_err
  \/ recv_ok
  \/ recv_timeout
  \/ agent_reply

Spec == Init /\ [][Next]_vars

---------------------------------------------------------------------------
(* validate applied on its own to decoded PDUs.                            *)

\* A sub-identifier of 70 bits, wider than a u64: ten bytes in base 128.
WIDE == 0 - 1
WideArc == << 129, 128, 128, 128, 128, 128, 128, 128, 128, 0 >>

RECURSIVE ArcBytes(_, _)
\* The BER content of the sub-identifiers arcs[i..], WIDE standing for the
\* 70-bit one.
ArcBytes(arcs, i) ==
  IF i > Len(arcs) THEN << >>
  ELSE (IF arcs[i] = WIDE THEN WideArc ELSE Base128(arcs[i], TRUE))
       \o ArcBytes(arcs, i + 1)

OidBytes(arcs) == << arcs[1] * 40 + arcs[2] >> \o ArcBytes(arcs, 3)

MpdArcs    == << 1, 3, 6, 1, 6, 3, 11, 2, 1 >>
UsmArcs    == << 1, 3, 6, 1, 6, 3, 15, 1, 1 >>
TargetArcs == << 1, 3, 6, 1, 6, 3, 12, 1 >>

\* What follows a prefix in the OIDs tried.
Suffixes ==
  {<< >>, << 129 >>, << 200000, 0 >>, << 7, 2 >>, << 9, 5, 0 >>, << WIDE >>,
   << 2, WIDE >>, << 5, 0, WIDE >>, << 8, WIDE >>}
    \cup {<< k >> : k \in 0..7} \cup {<< k, 0 >> : k \in 0..7}

\* The OIDs of the first varbind of the Reports tried.
ReportOids ==
  {p \o x : p \in {MpdArcs, UsmArcs, TargetArcs}, x \in Suffixes}
    \cup {<< 1, 3, 6, 1, 2, 1, 1, 1, 0 >>, << 1, 3, 6, 1, 6, 3, 15, 1 >>,
          << 1, 3, 6, 1, 6, 3, 15, 1, 2, 2, 0 >>, << 1, 3, 6, 1, 6, 3, 15, 2, 1, 2, 0 >>,
          << 1, 3, 6, 1, 2, 1, WIDE >>}

\* A PDU as the decoder returns it for the message an agent built.
DecodedMsg(comm, ident, id, values) ==
  from_bytes_inner(ReplyMsg(VERSION_V2C, comm, ident, id, values), FALSE, FALSE).pdu

\* The PDUs given to validate: arcs is the OID of the first varbind, << >>
\* when the PDU has no varbind.
GivenPdus ==
  {[pdu |-> DecodedMsg(c, ident, id,
                       << [oid |-> OidBytes(<< 1, 3, 6, 1, 2, 1, 1, 1, 0 >>),
                           val |-> Value("Integer", I64FromI32(7))] >>),
    arcs |-> << 1, 3, 6, 1, 2, 1, 1, 1, 0 >>] :
      c \in {Public, Private}, ident \in {MSG_RESPONSE, MSG_GET}, id \in {1, 2}}
  \cup
  {[pdu |-> DecodedMsg(ci[1], MSG_REPORT, ci[2],
                       << [oid |-> OidBytes(a),
                           val |-> Value("Counter32", U32Bytes(1))] >>),
    arcs |-> a] :
      ci \in {<< Public, 1 >>, << Private, 2 >>}, a \in ReportOids}
  \cup
  {[pdu |-> DecodedMsg(ci[1], MSG_REPORT, ci[2], << >>), arcs |-> << >>] :
      ci \in {<< Public, 1 >>, << Private, 2 >>}}

InitValidate ==
  /\ overflow_checks = FALSE
  /\ feature_v3 = FALSE
  /\ version = VERSION_V2C
  /\ community = Public
  /\ req_id = 1
  /\ Fresh
  /\ given \in {[fn |-> "validate", pdu |-> g.pdu, arcs |-> g.arcs,
                  expected_type |-> t, expected_req_id |-> id,
                  expected_community |-> c] :
                   g \in GivenPdus, t \in {"Response", "Get", "Report"},
                   id \in {1, 2}, c \in {Public, Private}}
  /\ outcome = NoOutcome

session == << req_id, send_pdu, pc, call, wire, sockq, result, calls, events,
             timed_out, late >>

apply_validate ==
  /\ given.fn = "validate"
  /\ ~outcome.done
  /\ outcome' = [done |-> TRUE,
                 val |-> validate(given.pdu, given.expected_type,
                                  given.expected_req_id, given.expected_community)]
  /\ UNCHANGED << given, config, session >>

NextValidate == apply_validate

SpecValidate == InitValidate /\ [][NextValidate]_vars

---------------------------------------------------------------------------
(* The request id over long runs of successful requests.                   *)

MaxSingles == 5
MaxBlocks == 4

\* 2^30 requests.
Block == 1024 * 1024 * 1024

\* Wrapping<i32> += Wrapping(1), n times over (0 < n < 2^31).
wrapping_add(x, n) ==
  IF x > I32_MAX - n THEN I32_MIN + (((x - I32_MAX) + n) - 1) ELSE x + n

InitWrap ==
  /\ overflow_checks = FALSE
  /\ feature_v3 = FALSE
  /\ version = VERSION_V2C
  /\ community = Public
  /\ req_id \in {0, 1, 0 - 1, I32_MAX, I32_MIN}
  /\ Fresh
  /\ given = [fn |-> "wrap", starting_req_id |-> req_id]
  /\ outcome = [done |-> FALSE, blocks |-> 0, singles |-> 0]

\* One successful request, from its build to its validated response.
request_ok ==
  /\ given.fn = "wrap"
  /\ outcome.singles < MaxSingles
  /\ req_id' = wrapping_inc(req_id)
  /\ outcome' = [outcome EXCEPT !.singles = @ + 1]
  /\ UNCHANGED << given, config, send_pdu, pc, call, wire, sockq, result, calls,
                  events, timed_out, late >>

\* Block successful requests in a row.
requests_ok ==
  /\ given.fn = "wrap"
  /\ outcome.blocks < MaxBlocks
  /\ req_id' = wrapping_add(req_id, Block)
  /\ outcome' = [outcome EXCEPT !.blocks = @ + 1]
  /\ UNCHANGED << given, config, send_pdu, pc, call, wire, sockq, result, calls,
                  events, timed_out, late >>

NextWrap == request_ok \/ requests_ok

SpecWrap == InitWrap /\ [][NextWrap]_vars

---------------------------------------------------------------------------
(* build and the four request builders applied on their own, the message   *)
(* they leave in the buffer decoded by from_bytes_inner and its varbinds    *)
(* iterated.                                                                *)

\* One varbind of each encodable kind.
OfEveryKind ==
  << [oid |-> OidSysDescr, val |-> Value("Boolean", TRUE)],
     [oid |-> OidSysName,  val |-> Value("Boolean", FALSE)],
     [oid |-> OidSysDescr, val |-> ValueNull],
     [oid |-> OidSysName,  val |-> Value("Integer", I64FromI32(0 - 129))],
     [oid |-> OidSysDescr, val |-> Value("OctetString", << 0, 255, 48 >>)],
     [oid |-> OidSysName,  val |-> Value("ObjectIdentifier", OidSysDescr)],
     [oid |-> OidSysDescr, val |-> Value("IpAddress", << 192, 168, 0, 1 >>)],
     [oid |-> OidSysName,  val |-> Value("Counter32", << 255, 255, 255, 255 >>)],
     [oid |-> OidSysDescr, val |-> Value("Unsigned32", << 128, 0, 0, 0 >>)],
     [oid |-> OidSysName,  val |-> Value("Timeticks", U32Bytes(65536))],
     [oid |-> OidSysDescr, val |-> Value("Opaque", << 159, 120, 4, 0 >>)],
     [oid |-> OidSysName,  val |-> Value("Counter64", Repeat(255, I64_SIZE))],
     [oid |-> OidSysDescr, val |-> Value("EndOfMibView", << >>)],
     [oid |-> OidSysName,  val |-> Value("NoSuchObject", << >>)],
     [oid |-> OidSysDescr, val |-> Value("NoSuchInstance", << >>)] >>

\* The kinds in three lists of five.
EveryKind == {SubSeq(OfEveryKind, 5 * k - 4, 5 * k) : k \in 1..3}

\* The lists of (oid, value) given to build_set and build: none, one, two
\* in an order that shows, every kind, an empty octet string, and octet
\* strings that bring the message to the end of the buffer.
BuildValues ==
  {<< >>, << [oid |-> OidSysDescr, val |-> ValueNull] >>,
   << [oid |-> OidSysName, val |-> Value("Integer", I64FromI32(1))],
      [oid |-> OidSysDescr, val |-> Value("Integer", I64FromI32(2))] >>,
   SetValues(0), SetValues(200)}
    \cup EveryKind
    \cup {SetValues(BUFFER_SIZE - n) : n \in 46..54}

\* The request ids and the second and third integers given to the builders.
BuildReqIds == {0, 1, 0 - 1, I32_MAX, I32_MIN}
BuildCounts == {0, 1, 10, I32_MAX}

\* The PDU types other than the v1 trap.
NonTrapIdents ==
  {MSG_GET, MSG_GET_NEXT, MSG_RESPONSE, MSG_SET, MSG_GET_BULK, MSG_INFORM,
   MSG_TRAP_V2, MSG_REPORT}

Asked(via, ident, id, values, non_repeaters, max_repetitions) ==
  [fn |-> "build", via |-> via, ident |-> ident, req_id |-> id, values |-> values,
   non_repeaters |-> non_repeaters, max_repetitions |-> max_repetitions]

GivenBuilds ==
  {Asked("build_get", MSG_GET, id, << [oid |-> o, val |-> ValueNull] >>, 0, 0) :
     id \in BuildReqIds, o \in {OidSysDescr, OidSysName}}
  \cup
  {Asked("build_getnext", MSG_GET_NEXT, id, << [oid |-> o, val |-> ValueNull] >>, 0, 0) :
     id \in BuildReqIds, o \in {OidSysDescr, OidSysName}}
  \cup
  {Asked("build_getbulk", MSG_GET_BULK, id,
         [i \in 1..n |-> [oid |-> << OidSysDescr, OidSysName >>[i], val |-> ValueNull]],
         a, b) :
     id \in {1, I32_MIN}, n \in 0..2, a \in BuildCounts, b \in BuildCounts}
  \cup
  {Asked("build_set", MSG_SET, id, v, 0, 0) : id \in {1, I32_MAX}, v \in BuildValues}
  \cup
  {Asked("build", ident, 1, v, ab[1], ab[2]) :
     ident \in NonTrapIdents,
     v \in {<< >>, SetValues(BUFFER_SIZE - 47)} \cup EveryKind,
     ab \in {<< 0, 0 >>, << 1, 10 >>, << I32_MAX, 5 >>}}

\* A buffer that holds an earlier message.
BufUsed == [len |-> 3, data |-> << TYPE_NULL, 0, 0 >>, panic |-> FALSE]

NotBuilt ==
  [done |-> FALSE, built |-> FALSE, decoded |-> FALSE, pdu |-> DecodeErr(NoError),
   items |-> << >>, rest |-> << >>, ended |-> FALSE]

InitBuild ==
  /\ overflow_checks \in BOOLEAN
  /\ feature_v3 = FALSE
  /\ version \in {VERSION_V1, VERSION_V2C}
  /\ community \in {Public, << >>}
  /\ req_id = 1
  /\ Fresh
  /\ given \in GivenBuilds
  /\ outcome = NotBuilt

\* What a builder leaves: the buffer b.
built(via, b) ==
  /\ given.fn = "build"
  /\ given.via = via
  /\ ~outcome.built
  /\ send_pdu' = b
  /\ outcome' = [outcome EXCEPT !.built = TRUE]
  /\ UNCHANGED << given, config, req_id, pc, call, wire, sockq, result, calls,
                  events, timed_out, late >>

apply_build_get ==
  \E b \in {BufDefault, BufUsed} :
    built("build_get",
          build_get(b, version, community, given.req_id, given.values[1].oid,
                    overflow_checks))

apply_build_getnext ==
  \E b \in {BufDefault, BufUsed} :
    built("build_getnext",
          build_getnext(b, version, community, given.req_id, given.values[1].oid,
                        overflow_checks))

apply_build_getbulk ==
  \E b \in {BufDefault, BufUsed} :
    built("build_getbulk",
          build_getbulk(b, version, community, given.req_id,
                        [i \in 1..Len(given.values) |-> given.values[i].oid],
                        U32Bytes(given.non_repeaters), U32Bytes(given.max_repetitions),
                        overflow_checks))

apply_build_set ==
  \E b \in {BufDefault, BufUsed} :
    built("build_set",
          build_set(b, version, community, given.req_id, given.values, overflow_checks))

apply_build ==
  \E b \in {BufDefault, BufUsed} :
    built("build",
          build(b, version, community, given.ident, given.req_id, given.values,
                U32Bytes(given.non_repeaters), U32Bytes(given.max_repetitions),
                overflow_checks))

\* The decoder's result d and the start of the iteration over its varbinds.
decoded_as(d) ==
  [outcome EXCEPT !.decoded = TRUE, !.pdu = d, !.rest = d.pdu.varbinds]

\* Pdu::from_bytes on the message built, unless the builder panicked.
apply_from_bytes ==
  /\ given.fn = "build"
  /\ outcome.built /\ ~outcome.decoded
  /\ ~send_pdu.panic
  /\ outcome' = decoded_as(from_bytes_inner(send_pdu.data, FALSE, FALSE))
  /\ UNCHANGED << given, config, session >>

\* One step of the iteration: the item, or the end.
iterated(item) ==
  IF item.some
    THEN [outcome EXCEPT !.items = Append(@, [oid |-> item.oid, val |-> item.val]),
                         !.rest = item.rest]
    ELSE [outcome EXCEPT !.ended = TRUE, !.done = TRUE]

\* Varbinds::next on the decoded PDU.
apply_varbinds_next ==
  /\ given.fn = "build"
  /\ outcome.decoded /\ ~outcome.ended
  /\ outcome.pdu.err = NoError
  /\ outcome' = iterated(varbinds_next(outcome.rest))
  /\ UNCHANGED << given, config, session >>

NextBuild ==
  \/ apply_build_get
  \/ apply_build_getnext
  \/ apply_build_getbulk
  \/ apply_build_set
  \/ apply_build
  \/ apply_from_bytes
  \/ apply_varbinds_next

SpecBuild == InitBuild /\ [][NextBuild]_vars

---------------------------------------------------------------------------
(* from_bytes_inner applied on its own to messages a peer may send.        *)

\* i64 values as their 8 big-endian bytes.
I64_MAX  == << 127 >> \o Repeat(255, 7)
I64_MIN  == << 128 >> \o Repeat(0, 7)
TwoTo31  == << 0, 0, 0, 0, 128, 0, 0, 0 >>
TwoTo32  == << 0, 0, 0, 1, 0, 0, 0, 0 >>
BelowI32 == << 255, 255, 255, 255, 127, 255, 255, 255 >>

\* A message as a peer encodes it, every INTEGER an i64: the version, the
\* community, the PDU of the given tag with its three INTEGERs and varbinds.
WireMsg(ver, comm, ident, id, error_status, error_index, values) ==
  push_sequence(0,
    push_integer(
      push_octet_string(
        push_constructed(0,
          push_integer(
            push_integer(
              push_integer(
                push_sequence(0, push_varbinds(BufDefault, values, Len(values), FALSE)),
                error_index, FALSE),
              error_status, FALSE),
            id, FALSE),
          ident),
        comm),
      ver, FALSE)).data

\* A message that is nothing but its version and three stray bytes.
WireVersionOnly(ver) ==
  push_sequence(0, push_integer(push_chunk(BufDefault, << 255, 255, 255 >>), ver, FALSE)).data

WireVersions ==
  {I64FromI32(v) : v \in {0, 1, 2, 3, 4, 0 - 1, 256, I32_MIN}}
    \cup {TwoTo32, << 0, 0, 0, 1, 0, 0, 0, 1 >>, << 0, 0, 0, 1, 0, 0, 0, 3 >>, I64_MAX, I64_MIN}

WireReqIds ==
  {I64FromI32(v) : v \in {0, 0 - 1, I32_MAX, I32_MIN}} \cup {TwoTo31, BelowI32, TwoTo32, I64_MIN}

WireCounts ==
  {I64FromI32(v) : v \in {0, 5, I32_MAX, 0 - 1}} \cup {TwoTo31, TwoTo32, I64_MAX}

Sent(bytes, ver, whole, id, error_status, error_index, ident) ==
  [fn |-> "decode", bytes |-> bytes, version |-> ver, whole |-> whole, req_id |-> id,
   error_status |-> error_status, error_index |-> error_index, ident |-> ident]

GivenMessages ==
  {Sent(WireVersionOnly(v), v, FALSE, I64FromI32(0), I64FromI32(0), I64FromI32(0), MSG_RESPONSE) :
     v \in WireVersions}
  \cup
  {Sent(WireMsg(v, Public, ident, I64FromI32(7), I64FromI32(0), I64FromI32(0), SetValues(1)),
        v, TRUE, I64FromI32(7), I64FromI32(0), I64FromI32(0), ident) :
     v \in WireVersions, ident \in {MSG_RESPONSE, MSG_GET_BULK}}
  \cup
  {Sent(WireMsg(I64FromI32(v), Public, MSG_RESPONSE, id, a, b, SetValues(1)),
        I64FromI32(v), TRUE, id, a, b, MSG_RESPONSE) :
     v \in {VERSION_V1, VERSION_V2C}, id \in WireReqIds, a \in WireCounts, b \in WireCounts}

InitDecode ==
  /\ overflow_checks = FALSE
  /\ feature_v3 \in BOOLEAN
  /\ version = VERSION_V2C
  /\ community = Public
  /\ req_id = 1
  /\ Fresh
  /\ given \in {[security |-> s] @@ g : g \in GivenMessages, s \in BOOLEAN}
  /\ given.security => feature_v3
  /\ outcome = NoOutcome

\* Pdu::from_bytes (security None) and Pdu::from_bytes_with_security.
apply_from_bytes_inner ==
  /\ given.fn = "decode"
  /\ ~outcome.done
  /\ outcome' = [done |-> TRUE,
                 val |-> from_bytes_inner(given.bytes, feature_v3, given.security)]
  /\ UNCHANGED << given, config, session >>

NextDecode == apply_from_bytes_inner

SpecDecode == InitDecode /\ [][NextDecode]_vars

---------------------------------------------------------------------------
(* pdu.rs: Buf::push_object_identifier, the writer that takes the arcs.     *)

\* The closure given to scribble_bytes: the bytes written and their number,
\* 0 when the head is not encodable or the free space is too small.  With
\* no free byte `output.len() - 1` overflows: a panic in a checked build,
\* and in an unchecked one an index out of range unless the head check returns.
oid_scribbled(b, input, enc) ==
  IF available(b) < Len(enc) THEN [buf |-> b, count |-> 0]
  ELSE [buf |-> [b EXCEPT !.len = @ + Len(enc), !.data = enc \o @], count |-> Len(enc)]

oid_scribble(b, input, checked) ==
  IF available(b) = 0 /\ (checked \/ (input[1] < 3 /\ input[2] < 40))
    THEN [buf |-> Panicked(b), count |-> 0]
  ELSE IF input[1] >= 3 \/ input[2] >= 40 THEN [buf |-> b, count |-> 0]
  ELSE oid_scribbled(b, input, << input[1] * 40 + input[2] >> \o OidTail(input, 3))

push_object_identifier(b, input, checked) ==
  IF b.panic \/ Len(input) < 2 THEN b
  ELSE push_tlv_head(oid_scribble(b, input, checked), TYPE_OBJECTIDENTIFIER)

---------------------------------------------------------------------------
(* Buf driven one operation at a time.                                      *)

\* The number of operations in a row.
MaxOps == 2

\* What is left free in the buffers the operations start from.
FreeAtStart == {BUFFER_SIZE, 300, 131, 129, 10, 7, 4, 2, 0}

BufWithFree(n) ==
  [len |-> BUFFER_SIZE - n, data |-> Repeat(170, BUFFER_SIZE - n), panic |-> FALSE]

\* The tag each typed writer gives its TLV.
TagOf(kind) ==
  CASE kind = "Boolean" -> TYPE_BOOLEAN
    [] kind = "Null" -> TYPE_NULL
    [] kind = "Integer" -> TYPE_INTEGER
    [] kind = "OctetString" -> TYPE_OCTETSTRING
    [] kind = "ObjectIdentifier" -> TYPE_OBJECTIDENTIFIER
    [] kind = "IpAddress" -> TYPE_IPADDRESS
    [] kind = "Counter32" -> TYPE_COUNTER32
    [] kind = "Unsigned32" -> TYPE_UNSIGNED32
    [] kind = "Timeticks" -> TYPE_TIMETICKS
    [] kind = "Opaque" -> TYPE_OPAQUE
    [] kind = "Counter64" -> TYPE_COUNTER64
    [] kind = "EndOfMibView" -> SNMP_ENDOFMIBVIEW
    [] kind = "NoSuchObject" -> SNMP_NOSUCHOBJECT
    [] OTHER -> SNMP_NOSUCHINSTANCE

\* The values given to the typed writers.
TypedValues ==
  {OfEveryKind[i].val : i \in 1..Len(OfEveryKind)}
    \cup {Value("OctetString", Repeat(65, n)) : n \in {0, 128}}

NoOp == [op |-> "none", ident |-> 0, before |-> BufDefault]

InitBuf ==
  /\ overflow_checks \in BOOLEAN
  /\ feature_v3 = FALSE
  /\ version = VERSION_V2C
  /\ community = Public
  /\ req_id = 1
  /\ pc = "idle"
  /\ call = [serial |-> 0, op |-> "", req_id |-> 0, needed |-> 0]
  /\ wire = {}
  /\ sockq = << >>
  /\ result = NoResult
  /\ calls = 0
  /\ events = << >>
  /\ timed_out = {}
  /\ late = 0
  /\ send_pdu \in {BufWithFree(n) : n \in FreeAtStart}
  /\ given = [fn |-> "buf"]
  /\ outcome = [done |-> FALSE, ops |-> 0, last |-> NoOp]

others == << req_id, pc, call, wire, sockq, result, calls, events, timed_out, late >>

\* An operation returned or panicked, leaving the buffer b.
wrote(op, ident, b) ==
  /\ given.fn = "buf"
  /\ ~send_pdu.panic
  /\ outcome.ops < MaxOps
  /\ send_pdu' = b
  /\ outcome' = [outcome EXCEPT !.ops = @ + 1,
                                !.last = [op |-> op, ident |-> ident, before |-> send_pdu]]
  /\ UNCHANGED << given, config, others >>

buf_push_byte == \E byte \in {255} : wrote("raw", 0, push_byte(send_pdu, byte))

buf_push_chunk ==
  \E chunk \in {<< 1, 2 >>, Repeat(7, 130)} :
    wrote("raw", 0, push_chunk(send_pdu, chunk))

buf_push_length ==
  \E len \in {0, 127, 128, 256, 65536} :
    wrote("raw", 0, push_length(send_pdu, len))

buf_push_i64 ==
  \E n \in {I64FromI32(0), I64FromI32(0 - 129), I64_MAX} :
    wrote("raw", 0, push_i64(send_pdu, n, overflow_checks).buf)

\* push_integer, push_octet_string and the other writers of one TLV.
buf_push_typed ==
  \E val \in TypedValues :
    wrote("tlv", TagOf(val.kind), push_value(send_pdu, val, overflow_checks))

buf_push_object_identifier ==
  \E input \in {<< 1, 3 >>, << 1, 3, 6, 1, 4, 1, 2680, 1, 2, 7, 3, 2, 0 >>,
                << 1, 3, 6, 1, 200000 >>} :
    wrote("tlv", TYPE_OBJECTIDENTIFIER,
          push_object_identifier(send_pdu, input, overflow_checks))

\* What the closure f given to push_constructed writes: nothing, a chunk,
\* an INTEGER.
children(b, f) ==
  CASE f = "nothing" -> b
    [] f = "chunk"   -> push_chunk(b, Repeat(7, 130))
    [] OTHER         -> push_integer(b, I64FromI32(0 - 129), overflow_checks)

\* push_constructed and push_sequence: f runs, then the length of what it
\* wrote and the tag are prepended.
buf_push_constructed ==
  \E f \in {"nothing", "chunk", "integer"} :
    \/ wrote("tlv", TYPE_SEQUENCE, push_sequence(send_pdu.len, children(send_pdu, f)))
    \/ wrote("tlv", MSG_SET, push_constructed(send_pdu.len, children(send_pdu, f), MSG_SET))

\* reset between two messages.
buf_reset == wrote("reset", 0, reset(send_pdu))

NextBuf ==
  \/ buf_push_byte
  \/ buf_push_chunk
  \/ buf_push_length
  \/ buf_push_i64
  \/ buf_push_typed
  \/ buf_push_object_identifier
  \/ buf_push_constructed
  \/ buf_reset

SpecBuf == InitBuf /\ [][NextBuf]_vars

---------------------------------------------------------------------------
(* push_integer applied on its own.                                         *)

\* i64 values by their bytes: m significant bytes, the first of them h and
\* the others t, under a fill of 0x00 or 0xff.  Among them -2^63, -2^31,
\* -129, -128, -1, 0, 1, 127, 128, 255, 256, 2^31 - 1, 2^31, 2^63 - 1.
IntegerCases ==
  {Repeat(f, I64_SIZE - m) \o << h >> \o Repeat(t, m - 1) :
     f \in {0, 255}, m \in 1..I64_SIZE, h \in {0, 1, 127, 128, 129, 255}, t \in {0, 255}}

InitInteger ==
  /\ overflow_checks \in BOOLEAN
  /\ feature_v3 = FALSE
  /\ version = VERSION_V2C
  /\ community = Public
  /\ req_id = 1
  /\ pc = "idle"
  /\ call = [serial |-> 0, op |-> "", req_id |-> 0, needed |-> 0]
  /\ wire = {}
  /\ sockq = << >>
  /\ result = NoResult
  /\ calls = 0
  /\ events = << >>
  /\ timed_out = {}
  /\ late = 0
  /\ send_pdu \in {BufWithFree(n) : n \in {BUFFER_SIZE, 300, 10, 9, 7, 3}}
  /\ given \in {[fn |-> "push_integer", n |-> n] : n \in IntegerCases}
  /\ outcome = [done |-> FALSE, before |-> send_pdu]

apply_push_integer ==
  /\ given.fn = "push_integer"
  /\ ~outcome.done
  /\ send_pdu' = push_integer(send_pdu, given.n, overflow_checks)
  /\ outcome' = [outcome EXCEPT !.done = TRUE]
  /\ UNCHANGED << given, config, others >>

NextInteger == apply_push_integer

SpecInteger == InitInteger /\ [][NextInteger]_vars

---------------------------------------------------------------------------
(* SyncSession::init.  The v3 module (Security, build_init, the parse of a *)
(* v3 frame) is modelled from its description: a discovery message is an   *)
(* unauthenticated Get with an empty engine-id, and a parse may absorb the *)
(* authoritative engine-id into the security state.                        *)

NoSecurity == [some |-> FALSE, engine_id |-> << >>, engine_boots |-> 0, engine_time |-> 0]

EngineId == << 128, 0, 31, 136, 4 >>

\* The security states a session may be constructed or left with.
Securities ==
  {NoSecurity}
    \cup {[some |-> TRUE, engine_id |-> e, engine_boots |-> n, engine_time |-> n]
            : e \in {<< >>, EngineId}, n \in {0, 5}}

reset_engine_id(s) == [s EXCEPT !.engine_id = << >>]

reset_engine_counters(s) == [s EXCEPT !.engine_boots = 0, !.engine_time = 0]

need_init(s) == s.engine_id = << >>

\* msgGlobalData: msgID, msgMaxSize, msgFlags (reportable), the USM model.
global_data(b, id, checked) ==
  push_sequence(b.len,
    push_integer(
      push_integer(
        push_octet_string(push_integer(b, I64FromI32(3), checked), << 4 >>),
        I64FromI32(BUFFER_SIZE), checked),
      I64FromI32(id), checked))

\* msgSecurityParameters: empty engine-id, zero counters, no user, no keys.
security_params(b, checked) ==
  push_constructed(b.len,
    push_sequence(b.len,
      push_octet_string(
        push_integer(
          push_integer(
            push_octet_string(push_octet_string(push_octet_string(b, << >>), << >>), << >>),
            I64FromI32(0), checked),
          I64FromI32(0), checked),
        << >>)),
    TYPE_OCTETSTRING)

\* The scoped PDU: empty context, a Get with no varbinds.
scoped_pdu(b, id, checked) ==
  push_sequence(b.len,
    push_octet_string(
      push_octet_string(
        build_inner(b, id, MSG_GET, << >>, U32Bytes(0), U32Bytes(0), checked),
        << >>),
      << >>))

\* v3::build_init(req_id, &mut self.send_pdu)
build_init(b, id, checked) ==
  CHOOSE after \in
    {push_sequence(0, push_integer(global, I64FromI32(VERSION_V3), checked))
       : global \in
           {global_data(params, id, checked)
              : params \in
                  {security_params(scoped, checked)
                     : scoped \in {scoped_pdu(reset(b), id, checked)}}}} : TRUE

\* What Pdu::from_bytes_inner(.., Some(security)) may make of a datagram:
\* its result, and the engine-id it absorbed (none when empty).
V3Parses ==
  {[err |-> e, engine_id |-> g]
     : e \in {NoError, Err("AuthUpdated"), Err("AsnEof"), Err("UnsupportedVersion")},
       g \in {<< >>, EngineId}}

NoParse == [err |-> NoError, engine_id |-> << >>]

absorbed(s, parsed) ==
  IF parsed.engine_id = << >> THEN s
  ELSE [s EXCEPT !.engine_id = parsed.engine_id, !.engine_boots = 1, !.engine_time = 7]

\* An init that returns every error of the parse, AuthUpdated included.
init_returns_strict(parsed, s) ==
  IF parsed.err # NoError THEN parsed.err
  ELSE IF need_init(s) THEN ErrSub("AuthFailure", "NotAuthenticated")
  ELSE NoError

\* The end of init: the error of the parse unless it is AuthUpdated, then
\* need_init.
init_returns(parsed, s) ==
  IF parsed.err # NoError /\ parsed.err # Err("AuthUpdated") THEN parsed.err
  ELSE IF need_init(s) THEN ErrSub("AuthFailure", "NotAuthenticated")
  ELSE NoError

InitAsked(s, id) == [fn |-> "init", security |-> s, req_id |-> id]

InitInit ==
  /\ overflow_checks \in BOOLEAN
  /\ feature_v3 \in BOOLEAN
  /\ version \in {VERSION_V1, VERSION_V2C, VERSION_V3}
  /\ community = Public
  /\ req_id \in BuildReqIds
  /\ Fresh
  /\ given \in {InitAsked(s, req_id) : s \in Securities}
  /\ given.security.some => feature_v3
  /\ given.security.some <=> version = VERSION_V3
  /\ outcome = [done |-> FALSE, security |-> given.security, parsed |-> NoParse]

\* init() of a build without the v3 feature, and of a session without
\* security: Ok(()).
init_unsecured ==
  /\ pc = "idle"
  /\ calls < MaxCalls
  /\ ~feature_v3 \/ ~outcome.security.some
  /\ calls' = calls + 1
  /\ result' = [serial |-> calls + 1, status |-> "ok", err |-> NoError,
                pdu |-> NoPdu, from |-> NoDatagram]
  /\ outcome' = [outcome EXCEPT !.done = TRUE]
  /\ UNCHANGED << config, given, req_id, send_pdu, pc, call, network, events,
                  timed_out, late >>

\* init() with security, up to the send: the resets, build_init with the
\* current req_id, req_id += 1.
init_build ==
  /\ pc = "idle"
  /\ calls < MaxCalls
  /\ feature_v3 /\ outcome.security.some
  /\ outcome' = [outcome EXCEPT
                   !.security = reset_engine_counters(reset_engine_id(outcome.security))]
  /\ call' = [serial |-> calls + 1, op |-> "init", req_id |-> req_id, needed |-> 0]
  /\ calls' = calls + 1
  /\ result' = NoResult
  /\ send_pdu' = build_init(send_pdu, req_id, overflow_checks)
  /\ req_id' = wrapping_inc(req_id)
  /\ events' = << "reset_engine_id", "reset_engine_counters", "build_init" >>
  /\ pc' = "send"
  /\ UNCHANGED << config, given, network, timed_out, late >>

\* The transport failed: send_and_recv(..)? returns the error.
init_transport_err ==
  /\ (send_err \/ recv_timeout)
  /\ outcome.security.some

init_send_ok ==
  /\ send_ok
  /\ outcome.security.some

\* A datagram reaches the socket while init waits for it.
init_reply ==
  /\ pc = "recv"
  /\ sockq = << >>
  /\ \E p \in V3Parses :
       sockq' = << [answers |-> call.serial, good |-> p.err = Err("AuthUpdated"),
                    parsed |-> p] >>
  /\ UNCHANGED << alone, config, req_id, send_pdu, pc, call, wire, result, calls,
                  events, timed_out, late >>

\* The datagram was received and parsed; need_init decides.
init_recv_ok ==
  /\ pc = "recv"
  /\ sockq # << >>
  /\ outcome' = [outcome EXCEPT
                   !.done = TRUE,
                   !.parsed = Head(sockq).parsed,
                   !.security = absorbed(outcome.security, Head(sockq).parsed)]
  /\ result' = IF init_returns(Head(sockq).parsed,
                               absorbed(outcome.security, Head(sockq).parsed)) = NoError
                 THEN Returned("ok", NoError, NoPdu, NoDatagram)
                 ELSE Returned("err",
                               init_returns(Head(sockq).parsed,
                                            absorbed(outcome.security, Head(sockq).parsed)),
                               NoPdu, NoDatagram)
  /\ sockq' = Tail(sockq)
  /\ events' = Append(events, "recv")
  /\ pc' = "idle"
  /\ UNCHANGED << config, given, req_id, send_pdu, call, wire, calls, timed_out, late >>

NextInit ==
  \/ init_unsecured
  \/ init_build
  \/ init_send_ok
  \/ init_transport_err
  \/ init_reply
  \/ init_recv_ok

SpecInit == InitInit /\ [][NextInit]_vars

---------------------------------------------------------------------------
(* Properties of the session *)

\* A call has returned (or unwound) and no other has begun.
CallOver == call.serial > 0 /\ result.serial = call.serial

\* The call has returned a value: Ok(pdu) or Err(e).
CallReturned == CallOver /\ result.status \in {"ok", "err"}

\* The call received the agent's good response to an earlier call that had
\* returned Receive(TimedOut).
GotLateResponse ==
  /\ CallReturned
  /\ result.from.good
  /\ result.from.answers \in timed_out
  /\ result.from.answers # call.serial

\* C1: a call that receives the agent's late response to an earlier request
\* that timed out does not accept it: it returns RequestIdMismatch.
C1_LateResponseRejected ==
  GotLateResponse => result.status = "err" /\ result.err = Err("RequestIdMismatch")

\* C2: when a call that sent its datagram is over, the session's req_id is
\* the call's request id advanced by one (wrapping), whatever it returned.
C2_SentAdvancesReqId ==
  (CallReturned /\ events # << >> /\ Head(events) = "send")
    => req_id = wrapping_inc(call.req_id)

\* The request the datagram in send_pdu encodes, as a decoder reads it.
SentRequest == from_bytes_inner(send_pdu.data, FALSE, FALSE)

\* C3: a call that returns Ok(pdu) returns a Response whose req_id is the
\* request id the call encoded in its datagram and whose community is the
\* session's; a call that returns anything else returns an error and no PDU.
C3_OkIsTheValidatedResponse ==
  /\ (CallReturned /\ result.status = "ok") =>
        /\ result.pdu.message_type = "Response"
        /\ result.pdu.req_id = call.req_id
        /\ SentRequest.err = NoError => result.pdu.req_id = SentRequest.pdu.req_id
        /\ result.pdu.community = community
  /\ (CallReturned /\ result.status = "err") =>
        /\ result.err # NoError
        /\ result.pdu = NoPdu

\* A call returned Ok after one send and one receive.
C3_Witness ==
  /\ CallReturned
  /\ result.status = "ok"
  /\ result.pdu.req_id = SentRequest.pdu.req_id
  /\ events = << "send", "recv" >>

\* C4: the socket operations of a call are at most one send followed by at
\* most one receive; a timeout is returned after one send and one failed
\* receive, a send failure after the failed send alone, and every result
\* drawn from a datagram after one send and one receive.
C4_OneSendThenOneReceive ==
  /\ events \in {<< >>, << "send" >>, << "send_err" >>, << "send", "recv" >>,
                 << "send", "recv_err" >>}
  /\ (CallReturned /\ result.err = ErrSub("Receive", "TimedOut"))
        => events = << "send", "recv_err" >>
  /\ (CallReturned /\ result.err.kind = "Send") => events = << "send_err" >>
  /\ (CallReturned /\ result.err.kind \notin {"Send", "Receive"})
        => events = << "send", "recv" >>
  /\ (pc = "send" => events = << >>) /\ (pc = "recv" => events = << "send" >>)

\* A second call timed out after its one send, its request never answered.
C4_Witness ==
  /\ CallReturned
  /\ call.serial = 2
  /\ result.err = ErrSub("Receive", "TimedOut")
  /\ events = << "send", "recv_err" >>
  /\ \E m \in wire : m.serial = 2

\* C5: once a call has timed out, a later call whose own good response was
\* in the socket when it received returns Ok with that response.
C5_OwnResponseReturned ==
  (CallReturned /\ timed_out # {} /\ call.serial \notin timed_out /\ result.from.own)
    => result.status = "ok" /\ result.from.answers = call.serial

\* C6: a call whose message needs more than BUFFER_SIZE bytes returns
\* EncodeOverflow and makes no socket operation.
C6_OverflowIsAnError ==
  (call.serial > 0 /\ call.needed > BUFFER_SIZE)
    => /\ CallReturned
       /\ result.err = Err("EncodeOverflow")
       /\ events = << >>

---------------------------------------------------------------------------
(* Properties of validate *)

Validated == given.fn = "validate" /\ outcome.done

TypeMatches == given.pdu.message_type = given.expected_type
ReqIdMatches == given.pdu.req_id = given.expected_req_id
CommunityMatches == given.pdu.community = given.expected_community

\* C7: for a PDU that is not a Report, validate returns Ok exactly when the
\* type, the req_id and the community all match, and otherwise the error of
\* the first check that fails, in the order type, req_id, community.
C7_FirstFailingCheck ==
  (Validated /\ given.pdu.message_type # "Report") =>
    /\ outcome.val = NoError <=> (TypeMatches /\ ReqIdMatches /\ CommunityMatches)
    /\ ~TypeMatches => outcome.val = Err("AsnWrongType")
    /\ (TypeMatches /\ ~ReqIdMatches) => outcome.val = Err("RequestIdMismatch")
    /\ (TypeMatches /\ ReqIdMatches /\ ~CommunityMatches)
         => outcome.val = Err("CommunityMismatch")

\* The type is wrong and so are the req_id and the community.
C7_Witness ==
  /\ Validated
  /\ given.pdu.message_type = "Get"
  /\ ~TypeMatches /\ ~ReqIdMatches /\ ~CommunityMatches
  /\ outcome.val = Err("AsnWrongType")

\* C8: for a Report, validate returns an UnexpectedReport error whatever
\* the varbinds and the expected type, req_id and community.
C8_ReportIsNeverOk ==
  (Validated /\ given.pdu.message_type = "Report")
    => outcome.val.kind = "UnexpectedReport"

\* A Report was expected and the req_id and the community match.
C8_Witness ==
  /\ Validated
  /\ given.pdu.message_type = "Report"
  /\ TypeMatches /\ ReqIdMatches /\ CommunityMatches
  /\ outcome.val.kind = "UnexpectedReport"

Under(arcs, prefix) ==
  Len(arcs) >= Len(prefix) /\ SubSeq(arcs, 1, Len(prefix)) = prefix

\* The sub-id immediately after a prefix of n arcs selects among the named
\* ones; any other gives UnknownReport, none gives NoVarbindOid.
Selected(arcs, n, named) ==
  IF Len(arcs) = n THEN "NoVarbindOid"
  ELSE IF arcs[n + 1] \in DOMAIN named THEN named[arcs[n + 1]]
  ELSE "UnknownReport"

MpdNamed == << "UnknownSecurityModel", "InvalidMessage", "BadVersion" >>

UsmNamed ==
  << "UnsupportedSecurityLevel", "NotInTimeWindow", "UnknownUserName",
     "UnknownEngineId", "AuthenticationFailure", "DecryptionError" >>

TargetNamed == [k \in {4, 5} |-> "BadContext"]

\* The classification by the first varbind's OID, given as its arcs.
Classified(arcs) ==
  IF arcs = << >> THEN "NoVarbind"
  ELSE IF Under(arcs, MpdArcs) THEN Selected(arcs, Len(MpdArcs), MpdNamed)
  ELSE IF Under(arcs, UsmArcs) THEN Selected(arcs, Len(UsmArcs), UsmNamed)
  ELSE IF Under(arcs, TargetArcs) THEN Selected(arcs, Len(TargetArcs), TargetNamed)
  ELSE "UnknownReport"

HasWide(arcs) == \E i \in DOMAIN arcs : arcs[i] = WIDE

UnderAPrefix(arcs) ==
  Under(arcs, MpdArcs) \/ Under(arcs, UsmArcs) \/ Under(arcs, TargetArcs)

---------------------------------------------------------------------------
(* Properties of the request id *)

\* C10: after n successful requests, 0 < n <= 2^32 + MaxSingles, the
\* session's req_id equals its starting value exactly when n = 2^32.
C10_WrapsAfterTwoTo32 ==
  given.fn = "wrap" =>
    (req_id = given.starting_req_id
       <=> (outcome.singles = 0 /\ outcome.blocks % 4 = 0))

\* 2^32 successful requests were made.
C10_Witness ==
  /\ given.fn = "wrap"
  /\ outcome.blocks = 4 /\ outcome.singles = 0
  /\ req_id = given.starting_req_id

\* C10 as stated: after 2^31 successful requests the req_id equals its
\* starting value.
C10_AsStated ==
  (given.fn = "wrap" /\ outcome.blocks = 2 /\ outcome.singles = 0)
    => req_id = given.starting_req_id

---------------------------------------------------------------------------
(* Properties of build *)

\* The builder returned Ok(()) and the message it left was decoded.
BuiltAndDecoded == given.fn = "build" /\ outcome.decoded /\ outcome.pdu.err = NoError

\* C11: in the message a builder leaves, the INTEGER after the request id
\* is non_repeaters and the one after it max_repetitions, as given to
\* build_getbulk or build, and both are 0 for build_get, build_getnext and
\* build_set.
C11_IntegersInOrder ==
  BuiltAndDecoded =>
    /\ outcome.pdu.pdu.req_id = given.req_id
    /\ outcome.pdu.pdu.error_status = given.non_repeaters
    /\ outcome.pdu.pdu.error_index = given.max_repetitions
    /\ given.via \in {"build_get", "build_getnext", "build_set"}
         => outcome.pdu.pdu.error_status = 0 /\ outcome.pdu.pdu.error_index = 0

\* build_getbulk with non_repeaters = 1 and max_repetitions = 10.
C11_Witness ==
  /\ BuiltAndDecoded
  /\ given.via = "build_getbulk"
  /\ given.non_repeaters = 1 /\ given.max_repetitions = 10
  /\ Len(given.values) = 2
  /\ outcome.pdu.pdu.error_status = 1 /\ outcome.pdu.pdu.error_index = 10

\* The size of the message asked of the builder.
AskedSize ==
  MessageSize(version, community, given.req_id, given.values,
              U32Bytes(given.non_repeaters), U32Bytes(given.max_repetitions))

\* The message asked for fits the buffer (its values are all encodable).
Fits == given.fn = "build" /\ AskedSize <= BUFFER_SIZE

\* C15: the message a builder leaves for a request that fits the buffer
\* decodes to the version, community, PDU type, req_id and second and third
\* integers given, and its varbinds iterate to the (oid, value) pairs given,
\* in the order given.
C15_RoundTrip ==
  /\ (Fits /\ outcome.built) => (~send_pdu.panic /\ send_pdu.len = AskedSize)
  /\ (Fits /\ outcome.decoded) =>
       /\ outcome.pdu.err = NoError
       /\ outcome.pdu.pdu.version = version
       /\ outcome.pdu.pdu.community = community
       /\ outcome.pdu.pdu.message_type = from_ident(given.ident).val
       /\ outcome.pdu.pdu.req_id = given.req_id
       /\ outcome.pdu.pdu.error_status = given.non_repeaters
       /\ outcome.pdu.pdu.error_index = given.max_repetitions
  /\ (Fits /\ outcome.ended) => outcome.items = given.values

---------------------------------------------------------------------------
(* Properties of from_bytes_inner *)

DecodeDone == given.fn = "decode" /\ outcome.done

VersionIs(v) == given.version = I64FromI32(v)

\* C12: a version other than 0, 1 and 3 is UnsupportedVersion whatever
\* follows it; version 3 is handed to the v3 parser when the v3 feature is
\* built in and security was passed, is AuthFailure(SecurityNotProvided)
\* with the feature and no security, UnsupportedVersion without the feature;
\* only versions 0 and 1 are decoded as community-based messages.
C12_VersionsAccepted ==
  DecodeDone =>
    /\ (~VersionIs(0) /\ ~VersionIs(1) /\ ~VersionIs(3))
         => outcome.val = DecodeErr(Err("UnsupportedVersion"))
    /\ (VersionIs(3) /\ ~feature_v3) => outcome.val = DecodeErr(Err("UnsupportedVersion"))
    /\ (VersionIs(3) /\ feature_v3 /\ ~given.security)
         => outcome.val = DecodeErr(ErrSub("AuthFailure", "SecurityNotProvided"))
    /\ (VersionIs(3) /\ feature_v3 /\ given.security) => outcome.val = DecodeV3
    /\ outcome.val.v3 => (VersionIs(3) /\ feature_v3 /\ given.security)
    /\ (outcome.val.err = NoError /\ ~outcome.val.v3)
         => /\ VersionIs(0) \/ VersionIs(1)
            /\ VersionIs(outcome.val.pdu.version)

\* Version 2 at the head of an otherwise well-formed message.
C12_Witness ==
  /\ DecodeDone
  /\ VersionIs(2) /\ given.whole
  /\ outcome.val = DecodeErr(Err("UnsupportedVersion"))

\* A non-trap v1/v2c message whose fields all read.
WholeMessage == DecodeDone /\ given.whole /\ (VersionIs(0) \/ VersionIs(1))

\* C13: a req-id outside i32, or an error-status or error-index outside
\* 0..i32::MAX, is ValueOutOfRange; otherwise the message decodes and
\* req_id, error_status and error_index are the values on the wire.
C13_FieldsInRange ==
  WholeMessage =>
    IF I64InI32(given.req_id) /\ I64InNonNegI32(given.error_status)
         /\ I64InNonNegI32(given.error_index)
      THEN /\ outcome.val.err = NoError
           /\ I64FromI32(outcome.val.pdu.req_id) = given.req_id
           /\ I64FromI32(outcome.val.pdu.error_status) = given.error_status
           /\ I64FromI32(outcome.val.pdu.error_index) = given.error_index
           /\ outcome.val.pdu.error_status >= 0 /\ outcome.val.pdu.error_index >= 0
      ELSE outcome.val = DecodeErr(Err("ValueOutOfRange"))

\* An error-index of 2^31 after a req-id and an error-status in range.
C13_Witness ==
  /\ WholeMessage
  /\ given.req_id = I64FromI32(I32_MIN)
  /\ given.error_status = I64FromI32(I32_MAX)
  /\ given.error_index = TwoTo31
  /\ outcome.val = DecodeErr(Err("ValueOutOfRange"))

---------------------------------------------------------------------------
(* Properties of Buf *)

\* The operations so far all returned.
BufReturned == given.fn = "buf" /\ ~send_pdu.panic

\* A length field as BER writes it: short form below 128, else long form.
LengthField(n) == IF n < 128 THEN << n >> ELSE << 128 + SignificantBytes(n) >> \o LenBytes(n)

\* after is before with one TLV of k content bytes prepended: the tag at
\* the lowest occupied index, then the length field of k.
TlvOf(before, after, ident, k) ==
  /\ k >= 0
  /\ after.len - before.len = TlvSize(k)
  /\ after.data[1] = ident
  /\ SubSeq(after.data, 2, after.len - before.len - k) = LengthField(k)
  /\ SubSeq(after.data, after.len - before.len + 1, after.len) = before.data

TlvPrepended(before, after, ident) ==
  /\ after.len > before.len
  /\ \E h \in 2..5 : TlvOf(before, after, ident, after.len - before.len - h)

\* The part of C14 about len: len is the number of valid bytes, at most
\* BUFFER_SIZE, and an operation other than reset leaves the bytes that
\* were there at the end of the data.
BufLenInBounds ==
  BufReturned =>
    /\ send_pdu.len = Len(send_pdu.data)
    /\ send_pdu.len <= BUFFER_SIZE
    /\ outcome.last.op \in {"raw", "tlv"} =>
         /\ send_pdu.len >= outcome.last.before.len
         /\ SubSeq(send_pdu.data, send_pdu.len - outcome.last.before.len + 1, send_pdu.len)
              = outcome.last.before.data

\* C14: after push_constructed, push_sequence or a typed writer returned,
\* the tag of the TLV it built is at the lowest occupied index and is
\* followed by the length of the content written for it.
C14_TlvAtLowestIndex ==
  (BufReturned /\ outcome.last.op = "tlv")
    => TlvPrepended(outcome.last.before, send_pdu, outcome.last.ident)

---------------------------------------------------------------------------
(* Properties of push_integer *)

\* The i64 that big-endian two's-complement content bytes stand for.
SignExtended(c) == Repeat(IF c[1] >= 128 THEN 255 ELSE 0, I64_SIZE - Len(c)) \o c

\* The content of the INTEGER at the front of the buffer, k its length byte.
IntegerContent(k) == SubSeq(send_pdu.data, 3, 2 + k)

\* push_integer returned on a buffer that had room for the 8 bytes of an
\* i64 and the two of the tag and the length.
PushedInteger ==
  /\ given.fn = "push_integer"
  /\ outcome.done
  /\ available(outcome.before) >= I64_SIZE + 2

\* The front of the buffer is tag 0x02, a length k and k content bytes that
\* are n in the fewest bytes.
ShortestEncoding(n, k) ==
  /\ k \in 1..I64_SIZE
  /\ send_pdu.len = outcome.before.len + 2 + k
  /\ SubSeq(send_pdu.data, 3 + k, send_pdu.len) = outcome.before.data
  /\ SignExtended(IntegerContent(k)) = n
  /\ k > 1 => /\ ~(IntegerContent(k)[1] = 0 /\ IntegerContent(k)[2] < 128)
              /\ ~(IntegerContent(k)[1] = 255 /\ IntegerContent(k)[2] >= 128)
  /\ \A j \in 1..(k - 1) : SignExtended(SubSeq(n, I64_SIZE - j + 1, I64_SIZE)) # n

---------------------------------------------------------------------------
(* Properties of init *)

InitSteps == << "reset_engine_id", "reset_engine_counters", "build_init" >>

\* The orders in which init may have come to where it is.
InitOrders ==
  {InitSteps, InitSteps \o << "send_err" >>, InitSteps \o << "send" >>,
   InitSteps \o << "send", "recv_err" >>, InitSteps \o << "send", "recv" >>}

\* What init returns after the exchange that events tells of.
InitExpected ==
  CASE events[Len(events)] = "send_err" -> ErrSub("Send", "ConnectionRefused")
    [] events[Len(events)] = "recv_err" -> ErrSub("Receive", "TimedOut")
    [] OTHER ->
         IF outcome.parsed.err \notin {NoError, Err("AuthUpdated")} THEN outcome.parsed.err
         ELSE IF outcome.security.engine_id = << >>
           THEN ErrSub("AuthFailure", "NotAuthenticated")
         ELSE NoError

InitUnsecured ==
  /\ result.status = (IF calls = 0 THEN "none" ELSE "ok")
  /\ events = << >>
  /\ send_pdu = BufDefault
  /\ wire = {}
  /\ req_id = given.req_id

InitSecured ==
  /\ events \in InitOrders
  /\ send_pdu.data = build_init(BufDefault, call.req_id, FALSE).data
  /\ send_pdu.data # build_init(BufDefault, req_id, FALSE).data
  /\ req_id = wrapping_inc(call.req_id)
  /\ calls = 1 => call.req_id = given.req_id
  /\ pc \in {"send", "recv"} =>
       /\ result.status = "none"
       /\ outcome.security.engine_id = << >>
       /\ outcome.security.engine_boots = 0
       /\ outcome.security.engine_time = 0
  /\ pc = "idle" =>
       /\ Len(events) > Len(InitSteps)
       /\ result.err = InitExpected
       /\ result.status = (IF InitExpected = NoError THEN "ok" ELSE "err")

\* C17: init of a session with security resets the engine-id and counters,
\* builds one discovery message with the req_id it found and advances
\* req_id by one at once, sends it, and returns the transport error, or
\* the parse error other than AuthUpdated, or NotAuthenticated while
\* need_init holds, or Ok; init of a session without security returns Ok,
\* sends nothing and leaves req_id as it was.
C17_InitSequence ==
  given.fn = "init" =>
    /\ ~given.security.some => InitUnsecured
    /\ (given.security.some /\ calls > 0) => InitSecured

\* An init that the AuthUpdated signal of the reply let succeed.
C17_Witness ==
  /\ given.fn = "init"
  /\ given.security.some
  /\ calls = 1
  /\ pc = "idle"
  /\ result.status = "ok"
  /\ outcome.parsed.err = Err("AuthUpdated")
  /\ req_id = wrapping_inc(given.req_id)

---------------------------------------------------------------------------
(* Properties of req_id across a request *)

\* The bytes the receive of this step hands to the decoder.
Received ==
  SubSeq(Head(sockq).bytes, 1,
         IF Len(Head(sockq).bytes) < BUFFER_SIZE THEN Len(Head(sockq).bytes)
         ELSE BUFFER_SIZE)

\* The step receives a datagram and the datagram decodes.
DecodesReply ==
  /\ pc = "recv"
  /\ pc' = "idle"
  /\ sockq # << >>
  /\ from_bytes_inner(Received, feature_v3, FALSE).err = NoError

\* C18: a request operation advances req_id by one (wrapping) in the step
\* that decodes the reply, whether validate then passes or fails, and in no
\* other step: not when the build panics, nor when the send or the receive
\* fails, nor when the reply does not decode; the version and the community
\* of the session never change.
C18_ReqIdFrame ==
  [][/\ version' = version
     /\ community' = community
     /\ req_id' = (IF DecodesReply THEN wrapping_inc(req_id) ELSE req_id)
     /\ DecodesReply => result'.status \in {"ok", "err"}
     /\ (pc # "idle" /\ pc' = "idle" /\ ~DecodesReply) => result'.status = "err"]_vars

\* A call that failed in validate and advanced req_id.
C18_Witness ==
  /\ given.fn = "none"
  /\ pc = "idle"
  /\ result.serial = call.serial
  /\ result.status = "err"
  /\ result.err = Err("RequestIdMismatch")
  /\ req_id = wrapping_inc(call.req_id)

====
